---- MODULE Spec2Model ----
(***************************************************************************)
(* Model of the concurrent batch crawl engine of youtube-transcriber:      *)
(* QuotaTracker (utils/quota_tracker.py), MultiChannelProcessor and its    *)
(* data model (services/multi_channel_processor.py, models/batch.py).      *)
(*                                                                         *)
(* Time is counted in seconds since 00:00 UTC of the day the tracker is    *)
(* constructed.  An Optional[int] argument is a sequence of length <= 1:   *)
(* << >> is None, <<c>> is the integer c.                                  *)
(***************************************************************************)
EXTENDS Integers, Sequences, FiniteSets, TLC

\* ------------------------------------------------------------------ bounds
MaxCalls == 5
MaxReads == 1
MaxTicks == 1
MaxInputs == 2
MaxProcessCalls == 2
MaxVideos == 1
LongList == 3
MaxBreakerCalls == 5
MaxBreakerTicks == 2
MaxAttempts == 4
MaxAcquires == 5
MaxClock == 3
MaxQueueLen == 3
MaxBatchCalls == 4
MaxNow == 29100
MaxWindowCalls == 4
MaxWindowTicks == 3
LateStart == 28200

\* ------------------------------------------------------- program constants
FetchMaxAttempts == 2
PacificOffset == 28800
DayLength == 86400
MaxPollWait == 300
ResetPassedWait == 1
DefaultCost == 1

\* --------------------------------------------------------- input alphabets
QWorkers == {1, 2}
OpInputs == {"search", "other"}
CostInputs == {<< >>, <<0>>, <<30>>}
DailyLimits == {0, 50, 100}
TickSteps == {MaxPollWait, PacificOffset}
ChannelIds == {"a", "b"}
ChannelLimits == {1, 2}
VideoLimits == {1, 2}
BatchSizes == {1, 2}
CBCallers == {1, 2}
Thresholds == {1, 3}
RecoveryTimeouts == {1, 2}

VARIABLES
    \* QuotaTracker
    daily_limit, used_quota, reset_time, operation_history,
    \* clock and callers of the tracker; qlast is the value the last call
    \* returned (for wait_until_available: of its last check_quota); qwait
    \* holds, for a sleeping caller, the cost it waits for, the end of its
    \* sleep and the reset time it read, and, for a caller to which
    \* wait_until_available has returned and that made no call since, the
    \* cost it was admitted for
    now, nticks, ncalls, nreads, qpc, qwait, qlast,
    \* consume_quota calls since the last reset: number, successes, costs
    sr_n, sr_ok, sr_costs,
    \* BatchConfig / ProcessingConfig / OutputConfig of the processor
    max_channels, concurrent_limit, batch_size, output_configured,
    skip_checks,    \* ProcessingConfig: skip_private_videos or
                    \* skip_live_streams
    filter_raised,  \* for each channel task, whether filter_videos raised
    list_limit, \* the length of the longest list of videos that a channel
                \* of the run has
    \* MultiChannelProcessor: the call of process_channels_batch, its state
    channel_inputs, mpc, channel_progress, batch_result,
    channel_semaphore, video_semaphore,
    \* one channel task per input position: position in the code, its
    \* ProcessingQueue, the tasks of its videos
    wpc, queue, vpc,
    \* number of invocations of transcript_service.get_transcript so far
    fetches,
    \* BatchChannelOrchestrator: the progress file on disk, BatchConfig's
    \* save_progress, the position of the caller, whether there is a
    \* _session, _processed_channels, channel_progress (the status of each
    \* record), channel_semaphore, the tasks of _process_channels_concurrent,
    \* the calls of process_channels so far
    progress_file, save_progress, opc, o_session, o_processed, o_progress,
    o_semaphore, fpc, o_calls,
    \* what the orchestrator's run is remembered by: the processed_channels
    \* that _load_progress read, whether it failed, the outcome of the save
    \* that cleanup made
    resumed, load_failed, flushed,
    \* CircuitBreaker: failure_threshold, recovery_timeout, _state,
    \* _failure_count, _last_failure_time (-1 is None), the clock
    cb_threshold, cb_timeout, cb_state, cb_failure_count, cb_last_failure_time,
    cb_now, cb_nticks,
    \* the callers of async_call: where each one is, the calls begun, the
    \* invocations of func, the calls rejected, and the failed calls in a
    \* row since the breaker was closed with no failure counted (-1: none)
    cb_pc, cb_ncalls, cb_invoked, cb_rejected, cb_streak,
    \* for each caller whose func is running, the state that its
    \* async_call read when it let the call through
    cb_admit,
    \* for each caller whose func is running, whether its async_call was
    \* the one whose read of state moved the breaker from open to half_open
    cb_probe,
    \* the calls that failed since the last call that succeeded
    cb_run

qvars == <<daily_limit, used_quota, reset_time, operation_history,
           now, nticks, ncalls, nreads, qpc, qwait, qlast, sr_n, sr_ok, sr_costs>>

bvars == <<max_channels, concurrent_limit, batch_size, output_configured,
           skip_checks, filter_raised, list_limit,
           channel_inputs, mpc, channel_progress, batch_result,
           channel_semaphore, video_semaphore, wpc, queue, vpc, fetches>>

ovars == <<progress_file, save_progress, opc, o_session, o_processed,
           o_progress, o_semaphore, fpc, o_calls, resumed, load_failed, flushed>>

VARIABLES
    rt_max,             \* RetryManager.max_attempts
    rt_delay,           \* RetryManager.delay
    rt_backoff,         \* RetryManager.backoff
    rt_pc,              \* where the one call of execute is
    rt_attempt,         \* the loop variable of execute
    rt_last_exception,  \* last_exception: 0 for None, else the invocation
                        \* of func that raised it
    rt_invoked,         \* how often func has been invoked
    rt_outcomes,        \* what each invocation did: "ok", "fail", "other"
    rt_result,          \* what execute gave its caller
    rt_slept,           \* the seconds slept between attempts
    rt_sleeps           \* the wait_time of each asyncio.sleep, in order

VARIABLES
    ft_category,      \* the kind of error the transcript API raises for the
                      \* item, when it raises
    ft_pc,            \* where the one call of get_transcript is
    ft_attempt,       \* the loop variable of the async_retry wrapper
    ft_repo_calls,    \* calls of the repository's get_transcript
    ft_api_calls,     \* invocations of YouTubeTranscriptApi.get_transcript
    ft_api_failures,  \* how many of them raised
    ft_ytdlp_calls,   \* runs of yt-dlp
    ft_result         \* what get_transcript returned

VARIABLES
    eh_error,     \* the exception to classify: the patterns of
                  \* ERROR_PATTERNS that its lower-cased text contains, and
                  \* its type
    eh_pc,        \* where the classification is
    eh_category,  \* what categorize_error returned
    eh_strategy   \* what get_recovery_strategy returned for it

ehvars == <<eh_error, eh_pc, eh_category, eh_strategy>>

VARIABLES
    sw_max,       \* SlidingWindowRateLimiter.max_requests
    sw_window,    \* window_seconds
    sw_requests,  \* requests: the times of the requests granted, oldest first
    sw_lock,      \* the caller inside "async with self._lock" (0: nobody)
    sw_pc,        \* where each caller of acquire is
    sw_wake,      \* for a sleeping caller, the end of its sleep
    sw_now,       \* time.time(), in seconds
    sw_nticks,    \* the seconds that passed with nobody asleep
    sw_ncalls,    \* the calls of acquire made by the callers
    sw_granted    \* the calls of acquire that returned

swvars == <<sw_max, sw_window, sw_requests, sw_lock, sw_pc, sw_wake, sw_now,
            sw_nticks, sw_ncalls, sw_granted>>

ftvars == <<ft_category, ft_pc, ft_attempt, ft_repo_calls, ft_api_calls,
            ft_api_failures, ft_ytdlp_calls, ft_result>>

VARIABLES
    pq,          \* one ProcessingQueue: video_ids, current_index, batch_size
    pq_batches,  \* what each call of get_next_batch returned, with the
                 \* cursor before and after it
    pq_ncalls    \* how often get_next_batch has been called

pqvars == <<pq, pq_batches, pq_ncalls>>

VARIABLES
    rl_rate,        \* RateLimiter.rate
    rl_per,         \* RateLimiter.per, a whole number of seconds per token
                    \* times the rate
    rl_allowance,   \* RateLimiter.allowance times the seconds per token
    rl_last_check,  \* RateLimiter.last_check, in seconds since construction
    rl_locked,      \* whether _lock is held
    rl_pc,          \* where each caller of acquire is
    rl_wake_at,     \* when the sleep of the caller that holds the lock ends
    rl_now,         \* time.monotonic(), in seconds since construction
    rl_ncalls,      \* how often acquire has been called
    rl_completed    \* how many calls of acquire have returned

rlvars == <<rl_rate, rl_per, rl_allowance, rl_last_check, rl_locked, rl_pc,
            rl_wake_at, rl_now, rl_ncalls, rl_completed>>
rtvars == <<rt_max, rt_delay, rt_backoff, rt_pc, rt_attempt,
            rt_last_exception, rt_invoked, rt_outcomes, rt_result, rt_slept,
            rt_sleeps>>
cbvars == <<cb_threshold, cb_timeout, cb_state, cb_failure_count,
            cb_last_failure_time, cb_now, cb_nticks, cb_pc, cb_ncalls,
            cb_invoked, cb_rejected, cb_streak, cb_admit, cb_probe, cb_run>>

\* what the steps of the tracker, of the processor, of the orchestrator, of
\* the breaker, of the retry manager leave alone
notq == <<bvars, ovars, cbvars, rtvars, rlvars, pqvars, ftvars, ehvars, swvars>>
notb == <<qvars, ovars, cbvars, rtvars, rlvars, pqvars, ftvars, ehvars, swvars>>
noto == <<qvars, cbvars, rtvars, rlvars, pqvars, ftvars, ehvars, swvars>>
notcb == <<qvars, bvars, ovars, rtvars, rlvars, pqvars, ftvars, ehvars, swvars>>
notrt == <<qvars, bvars, ovars, cbvars, rlvars, pqvars, ftvars, ehvars, swvars>>

notrl == <<qvars, bvars, ovars, cbvars, rtvars, pqvars, ftvars, ehvars, swvars>>

notpq == <<qvars, bvars, ovars, cbvars, rtvars, rlvars, ftvars, ehvars, swvars>>

notft == <<qvars, bvars, ovars, cbvars, rtvars, rlvars, pqvars, ehvars, swvars>>

noteh == <<qvars, bvars, ovars, cbvars, rtvars, rlvars, pqvars, ftvars, swvars>>

notsw == <<qvars, bvars, ovars, cbvars, rtvars, rlvars, pqvars, ftvars, ehvars>>

vars == <<qvars, bvars, ovars, cbvars, rtvars, rlvars, pqvars, ftvars, ehvars, swvars>>

\* ------------------------------------------------------------ QuotaTracker
Min(a, b) == IF a < b THEN a ELSE b

\* QUOTA_COSTS.get(operation, 1)
QUOTA_COSTS(operation) ==
    CASE operation = "search" -> 100
      [] operation = "channels" -> 1
      [] operation = "videos" -> 1
      [] operation = "video_list" -> 1
      [] OTHER -> DefaultCost

\* cost or self.QUOTA_COSTS.get(operation, 1): None and 0 are both falsy
OperationCost(operation, cost) ==
    IF cost # << >> /\ cost[1] # 0 THEN cost[1] ELSE QUOTA_COSTS(operation)

\* slip of the reset time: midnight Pacific of the day of t itself
NextResetTime_SameDay(t) ==
    ((t - PacificOffset) \div DayLength) * DayLength + PacificOffset

\* midnight Pacific (UTC-8) following t, as a UTC time
NextResetTime(t) ==
    (((t - PacificOffset) \div DayLength) + 1) * DayLength + PacificOffset

\* datetime.utcnow() >= self.reset_time
ResetDue == now >= reset_time

\* slip of the admission test: the cost left out
QuotaExceeded_NoCost(used, operation_cost) == used > daily_limit

\* self.used_quota + operation_cost > self.daily_limit
QuotaExceeded(used, operation_cost) == used + operation_cost > daily_limit

EmptyHistory == [o \in OpInputs |-> 0]

\* a caller that neither sleeps in wait_until_available nor has just
\* returned from it
NoWait == [cost |-> 0, wake |-> 0, reset |-> 0, admitted |-> 0]

\* the tracker's fields after the "if due: _reset_quota()" prologue
UsedAfterReset == IF ResetDue THEN 0 ELSE used_quota
HistoryAfterReset == IF ResetDue THEN EmptyHistory ELSE operation_history
ResetTimeAfterReset == IF ResetDue THEN NextResetTime(now) ELSE reset_time

\* QuotaTracker(daily_limit), constructed t seconds after 00:00 UTC
QInitAt(t) ==
    /\ daily_limit \in DailyLimits
    /\ used_quota = 0
    /\ now = t
    /\ reset_time = NextResetTime(t)
    /\ operation_history = EmptyHistory
    /\ nticks = 0
    /\ ncalls = 0
    /\ nreads = 0
    /\ qpc = [w \in QWorkers |-> "idle"]
    /\ qwait = [w \in QWorkers |-> NoWait]
    /\ qlast = FALSE
    /\ sr_n = 0
    /\ sr_ok = 0
    /\ sr_costs = {}

QInit == QInitAt(0)

\* the clock advances
Tick(d) ==
    /\ nticks < MaxTicks
    /\ now' = now + d
    /\ nticks' = nticks + 1
    /\ UNCHANGED <<daily_limit, used_quota, reset_time, operation_history,
                   ncalls, nreads, qpc, qwait, qlast, sr_n, sr_ok, sr_costs>>
    /\ UNCHANGED notq

\* check_quota(operation, cost): one critical section under self._lock
CheckQuota(w, operation, cost) ==
    /\ qpc[w] = "idle"
    /\ nreads < MaxReads
    /\ nreads' = nreads + 1
    /\ used_quota' = UsedAfterReset
    /\ operation_history' = HistoryAfterReset
    /\ reset_time' = ResetTimeAfterReset
    /\ qlast' = ~QuotaExceeded(UsedAfterReset, OperationCost(operation, cost))
    /\ sr_n' = IF ResetDue THEN 0 ELSE sr_n
    /\ sr_ok' = IF ResetDue THEN 0 ELSE sr_ok
    /\ sr_costs' = IF ResetDue THEN {} ELSE sr_costs
    /\ qwait' = [qwait EXCEPT ![w] = NoWait]
    /\ UNCHANGED <<daily_limit, now, nticks, ncalls, qpc>>
    /\ UNCHANGED notq

\* consume_quota(operation, cost): one critical section under self._lock
ConsumeQuota(w, operation, cost) ==
    LET c == OperationCost(operation, cost)
        granted == ~QuotaExceeded(UsedAfterReset, c)
    IN  /\ qpc[w] = "idle"
        /\ ncalls < MaxCalls
        /\ ncalls' = ncalls + 1
        /\ reset_time' = ResetTimeAfterReset
        /\ used_quota' = IF granted THEN UsedAfterReset + c ELSE UsedAfterReset
        /\ operation_history' =
              IF granted
              THEN [HistoryAfterReset EXCEPT ![operation] = @ + 1]
              ELSE HistoryAfterReset
        /\ qlast' = granted
        /\ sr_n' = (IF ResetDue THEN 0 ELSE sr_n) + 1
        /\ sr_ok' = (IF ResetDue THEN 0 ELSE sr_ok) + (IF granted THEN 1 ELSE 0)
        /\ sr_costs' = (IF ResetDue THEN {} ELSE sr_costs) \cup {c}
        /\ qwait' = [qwait EXCEPT ![w] = NoWait]
        /\ UNCHANGED <<daily_limit, now, nticks, nreads, qpc>>
        /\ UNCHANGED notq

\* one turn of the loop of wait_until_available: check_quota, then either
\* return or go to sleep for min(300, time_until_reset) / 1 second
WaitPoll(w, operation, operation_cost) ==
    LET ok == ~QuotaExceeded(UsedAfterReset, OperationCost(operation, <<operation_cost>>))
        time_until_reset == ResetTimeAfterReset - now
        wait_time == IF time_until_reset > 0
                     THEN Min(MaxPollWait, time_until_reset)
                     ELSE ResetPassedWait
    IN  /\ used_quota' = UsedAfterReset
        /\ operation_history' = HistoryAfterReset
        /\ reset_time' = ResetTimeAfterReset
        /\ qlast' = ok
        /\ sr_n' = IF ResetDue THEN 0 ELSE sr_n
        /\ sr_ok' = IF ResetDue THEN 0 ELSE sr_ok
        /\ sr_costs' = IF ResetDue THEN {} ELSE sr_costs
        /\ qpc' = [qpc EXCEPT ![w] = IF ok THEN "idle" ELSE "sleeping"]
        /\ qwait' = [qwait EXCEPT ![w] =
                        IF ok
                        THEN [NoWait EXCEPT !.admitted = operation_cost]
                        ELSE [cost |-> operation_cost, wake |-> now + wait_time,
                              reset |-> ResetTimeAfterReset, admitted |-> 0]]
        /\ UNCHANGED <<daily_limit, now, nticks, ncalls>>
        /\ UNCHANGED notq

\* wait_until_available(operation, cost) is called
WaitUntilAvailable(w, operation, cost) ==
    /\ qpc[w] = "idle"
    /\ nreads < MaxReads
    /\ nreads' = nreads + 1
    /\ WaitPoll(w, operation, OperationCost(operation, cost))

\* asyncio.sleep is over: the loop of wait_until_available polls again (the
\* operation_cost of the loop is not 0, so check_quota does not look at the
\* operation)
WaitWake(w) ==
    /\ qpc[w] = "sleeping"
    /\ now >= qwait[w].wake
    /\ UNCHANGED nreads
    /\ \E operation \in OpInputs : WaitPoll(w, operation, qwait[w].cost)

\* the callers asleep in wait_until_available and the first end of a sleep
Sleepers == {w \in QWorkers : qpc[w] = "sleeping"}
FirstWake ==
    CHOOSE t \in {qwait[w].wake : w \in Sleepers} :
        \A w \in Sleepers : t <= qwait[w].wake

\* await asyncio.sleep(wait_time): with nothing else to run, the event loop
\* lets the time pass until the first sleep is over
SleepElapses ==
    /\ Sleepers # {}
    /\ now < FirstWake
    /\ FirstWake <= MaxNow
    /\ now' = FirstWake
    /\ UNCHANGED <<daily_limit, used_quota, reset_time, operation_history,
                   nticks, ncalls, nreads, qpc, qwait, qlast, sr_n, sr_ok,
                   sr_costs>>
    /\ UNCHANGED notq

QNext ==
    \/ \E d \in TickSteps : Tick(d)
    \/ \E w \in QWorkers, o \in OpInputs, c \in CostInputs : CheckQuota(w, o, c)
    \/ \E w \in QWorkers, o \in OpInputs, c \in CostInputs : ConsumeQuota(w, o, c)
    \/ \E w \in QWorkers, o \in OpInputs, c \in CostInputs : WaitUntilAvailable(w, o, c)
    \/ \E w \in QWorkers : WaitWake(w)

\* ---------------------------------------------------- models/batch.py
Range(f) == {f[x] : x \in DOMAIN f}

\* ChannelProgress(channel_id=..., status="pending")
NewProgress ==
    [status |-> "pending", processed_videos |-> 0, successful_videos |-> 0,
     failed_videos |-> 0, total_videos |-> 0, error_message |-> "none"]

\* ChannelProgress.update_progress(video_success, video_id)
update_progress(p, video_success) ==
    [p EXCEPT !.processed_videos = @ + 1,
              !.successful_videos = IF video_success THEN @ + 1 ELSE @,
              !.failed_videos = IF video_success THEN @ ELSE @ + 1]

\* BatchProcessingResult(total_channels=n): a list and two dicts (their
\* keys); the aggregate video counters, which nothing reads back, are left out
NewBatchResult(n) ==
    [total_channels |-> n, successful_channels |-> << >>,
     failed_channels |-> {}, partial_channels |-> {}]

\* BatchProcessingResult.add_channel_result(channel_id, progress)
add_channel_result(br, channel_id, p) ==
    LET placed ==
          IF p.status = "completed" /\ p.failed_videos = 0
          THEN [br EXCEPT !.successful_channels = Append(@, channel_id)]
          ELSE IF p.status = "failed"
          THEN [br EXCEPT !.failed_channels = @ \cup {channel_id}]
          ELSE [br EXCEPT !.partial_channels = @ \cup {channel_id}]
    IN  placed

\* ProcessingQueue(video_ids=[1..n]): the ids are the list positions
NewQueue(n) == [length |-> n, current_index |-> 0]

\* ProcessingQueue.is_complete
is_complete(q) == q.current_index >= q.length

\* ProcessingQueue.get_next_batch: the end of the slice
BatchEnd(q) == Min(q.current_index + batch_size, q.length)

\* ------------------------------------- services/multi_channel_processor.py
Workers == DOMAIN wpc

\* the lists of channel inputs, duplicates included; the ids are
\* interchangeable, so a list begins with "a"
InputLists ==
    {l \in UNION {[1..n -> ChannelIds] : n \in 0..MaxInputs} :
        l = << >> \/ l[1] = "a"}

TerminalStatus == {"completed", "partial", "failed"}

\* the positions of a channel task between acquiring and releasing the
\* channel semaphore
ActivePc == {"get_channel", "get_videos", "queue_loop", "mem_sleep", "batch"}
DonePc == {"done_ok", "done_exc"}

\* the positions of a video task between acquiring and releasing the
\* video semaphore
InFlight == {"fetching", "exporting"}
VideoDone == {"done", "raised"}

\* MultiChannelProcessor.__init__
BInit ==
    /\ max_channels \in ChannelLimits
    /\ concurrent_limit \in VideoLimits
    /\ batch_size \in BatchSizes
    /\ output_configured \in BOOLEAN
    /\ skip_checks \in BOOLEAN
    /\ list_limit \in {MaxVideos, LongList}
    /\ filter_raised = << >>
    /\ channel_inputs \in InputLists
    /\ mpc = "idle"
    /\ channel_progress = << >>
    /\ batch_result = NewBatchResult(0)
    /\ channel_semaphore = max_channels
    /\ video_semaphore = concurrent_limit
    /\ wpc = << >>
    /\ queue = << >>
    /\ vpc = << >>
    /\ fetches = 0

\* process_channels_batch up to the gather of the channel tasks
StartBatch ==
    /\ mpc = "idle"
    /\ mpc' = "gather"
    /\ batch_result' = NewBatchResult(Len(channel_inputs))
    /\ channel_progress' = [c \in Range(channel_inputs) |-> NewProgress]
    /\ wpc' = [i \in 1..Len(channel_inputs) |-> "spawned"]
    /\ queue' = [i \in 1..Len(channel_inputs) |-> NewQueue(0)]
    /\ vpc' = [i \in 1..Len(channel_inputs) |-> << >>]
    /\ filter_raised' = [i \in 1..Len(channel_inputs) |-> FALSE]
    /\ UNCHANGED <<max_channels, concurrent_limit, batch_size, output_configured, skip_checks, list_limit,
                   channel_inputs, channel_semaphore, video_semaphore, fetches>>

\* process_channels_batch is called on the processor itself
ProcessStart ==
    /\ opc = "none"
    /\ StartBatch
    /\ UNCHANGED notb

\* slips: no channel semaphore; one video semaphore per channel task
ChannelSlotFree_Always == TRUE
VideoSlotFree_PerChannel(i) ==
    Cardinality({k \in DOMAIN vpc[i] : vpc[i][k] \in InFlight}) < concurrent_limit

\* asyncio.Semaphore.acquire does not block
ChannelSlotFree == channel_semaphore > 0
VideoSlotFree(i) == video_semaphore > 0

\* async with self.channel_semaphore, then _process_single_channel up to
\* its first await
AcquireChannel(i) ==
    /\ wpc[i] = "spawned"
    /\ ChannelSlotFree
    /\ channel_semaphore' = channel_semaphore - 1
    /\ channel_progress' =
          [channel_progress EXCEPT ![channel_inputs[i]].status = "processing"]
    /\ wpc' = [wpc EXCEPT ![i] = "get_channel"]
    /\ UNCHANGED <<max_channels, concurrent_limit, batch_size, output_configured, skip_checks, list_limit, filter_raised,
                   channel_inputs, mpc, batch_result, video_semaphore,
                   queue, vpc, fetches>>
    /\ UNCHANGED notb

\* the except branch of _process_single_channel, the re-raise through
\* _process_single_channel_wrapped and the release of the channel semaphore
FailChannel(i) ==
    LET c == channel_inputs[i]
        p == [channel_progress[c] EXCEPT !.status = "failed",
                                         !.error_message = "recorded"]
    IN  /\ channel_progress' = [channel_progress EXCEPT ![c] = p]
        /\ batch_result' = add_channel_result(batch_result, c, p)
        /\ channel_semaphore' = channel_semaphore + 1
        /\ wpc' = [wpc EXCEPT ![i] = "done_exc"]

\* channel_service.get_channel_by_input returns a channel, None, or raises
GetChannelReturn(i, r) ==
    /\ wpc[i] = "get_channel"
    /\ IF r = "found"
       THEN /\ wpc' = [wpc EXCEPT ![i] = "get_videos"]
            /\ UNCHANGED <<channel_progress, batch_result, channel_semaphore>>
       ELSE FailChannel(i)
    /\ UNCHANGED <<max_channels, concurrent_limit, batch_size, output_configured, skip_checks, list_limit, filter_raised,
                   channel_inputs, mpc, video_semaphore, queue, vpc, fetches>>
    /\ UNCHANGED notb

\* filter_videos on a list of n videos: with skip_private or skip_live it
\* reads video.is_private or video.is_live of the first video, attributes
\* that Video does not have, and raises AttributeError. Without them it
\* reads no such attribute (skip_shorts, min_duration and max_duration are
\* not passed) and returns the list as it is, with no video marked.
FilterRaises(n) == skip_checks /\ n > 0

\* channel_service.get_channel_videos raises, or returns a list of n
\* videos, which filter_videos returns or raises on
GetVideosReturn(i, raised, n) ==
    LET c == channel_inputs[i]
    IN  /\ wpc[i] = "get_videos"
        /\ IF raised \/ FilterRaises(n)
           THEN /\ FailChannel(i)
                /\ filter_raised' = [filter_raised EXCEPT ![i] = ~raised]
                /\ UNCHANGED <<queue, vpc>>
           ELSE IF n = 0
           THEN LET p == [channel_progress[c] EXCEPT !.total_videos = 0,
                                                     !.status = "completed"]
                IN  /\ channel_progress' = [channel_progress EXCEPT ![c] = p]
                    /\ batch_result' = add_channel_result(batch_result, c, p)
                    /\ channel_semaphore' = channel_semaphore + 1
                    /\ wpc' = [wpc EXCEPT ![i] = "done_ok"]
                    /\ UNCHANGED <<queue, vpc, filter_raised>>
           ELSE /\ channel_progress' =
                      [channel_progress EXCEPT ![c].total_videos = n]
                /\ UNCHANGED filter_raised
                /\ queue' = [queue EXCEPT ![i] = NewQueue(n)]
                /\ vpc' = [vpc EXCEPT ![i] = [k \in 1..n |-> "queued"]]
                /\ wpc' = [wpc EXCEPT ![i] = "queue_loop"]
                /\ UNCHANGED <<batch_result, channel_semaphore>>
        /\ UNCHANGED <<max_channels, concurrent_limit, batch_size,
                       output_configured, skip_checks, list_limit, channel_inputs, mpc, video_semaphore,
                       fetches>>
        /\ UNCHANGED notb

\* the status at the end of _process_single_channel: completed with no
\* failed video, else partial
\* slip: a channel with a failed video is marked failed
FinalStatus_Failed(p) == IF p.failed_videos = 0 THEN "completed" ELSE "failed"
FinalStatus(p) == IF p.failed_videos = 0 THEN "completed" ELSE "partial"

\* the videos of the batch that get_next_batch hands out
BatchOf(q) == (q.current_index + 1)..BatchEnd(q)

\* one turn of the while loop of _process_channel_queue, and the end of
\* _process_single_channel when the queue is complete; memory_ok is the
\* result of memory_monitor.check_memory().  _export_channel_summary, which
\* ends it, awaits nothing and catches what its writing raises: whether
\* the summary is written or not, the step is the same
QueueLoop(i, memory_ok) ==
    LET c == channel_inputs[i]
        q == queue[i]
    IN  /\ wpc[i] = "queue_loop"
        /\ IF is_complete(q)
           THEN LET p == [channel_progress[c] EXCEPT !.status =
                            FinalStatus(channel_progress[c])]
                IN  /\ channel_progress' = [channel_progress EXCEPT ![c] = p]
                    /\ batch_result' = add_channel_result(batch_result, c, p)
                    /\ channel_semaphore' = channel_semaphore + 1
                    /\ wpc' = [wpc EXCEPT ![i] = "done_ok"]
                    /\ UNCHANGED <<queue, vpc>>
           ELSE IF ~memory_ok
           THEN /\ wpc' = [wpc EXCEPT ![i] = "mem_sleep"]
                /\ UNCHANGED <<channel_progress, batch_result,
                               channel_semaphore, queue, vpc>>
           ELSE /\ queue' = [queue EXCEPT ![i].current_index = BatchEnd(q)]
                /\ vpc' = [vpc EXCEPT ![i] =
                             [k \in DOMAIN @ |->
                                IF k \in BatchOf(q) THEN "waiting" ELSE @[k]]]
                /\ wpc' = [wpc EXCEPT ![i] = "batch"]
                /\ UNCHANGED <<channel_progress, batch_result, channel_semaphore>>
        /\ UNCHANGED <<max_channels, concurrent_limit, batch_size,
                       output_configured, skip_checks, list_limit, filter_raised, channel_inputs, mpc, video_semaphore,
                       fetches>>
        /\ UNCHANGED notb

\* asyncio.sleep(5) after a failed memory check is over
MemoryWake(i) ==
    /\ wpc[i] = "mem_sleep"
    /\ wpc' = [wpc EXCEPT ![i] = "queue_loop"]
    /\ UNCHANGED <<max_channels, concurrent_limit, batch_size, output_configured, skip_checks, list_limit, filter_raised,
                   channel_inputs, mpc, channel_progress, batch_result,
                   channel_semaphore, video_semaphore, queue, vpc, fetches>>
    /\ UNCHANGED notb

\* _process_single_video: async with self.video_semaphore, then the call of
\* transcript_service.get_transcript
VideoAcquire(i, k) ==
    /\ wpc[i] = "batch"
    /\ vpc[i][k] = "waiting"
    /\ VideoSlotFree(i)
    /\ video_semaphore' = video_semaphore - 1
    /\ vpc' = [vpc EXCEPT ![i][k] = "fetching"]
    /\ fetches' = fetches + 1
    /\ UNCHANGED <<max_channels, concurrent_limit, batch_size, output_configured, skip_checks, list_limit, filter_raised,
                   channel_inputs, mpc, channel_progress, batch_result,
                   channel_semaphore, wpc, queue>>
    /\ UNCHANGED notb

\* slip: the video semaphore is not released
VideoFinish_NoRelease(i, k, video_success, ended) ==
    LET c == channel_inputs[i]
        p == update_progress(channel_progress[c], video_success)
    IN  /\ channel_progress' = [channel_progress EXCEPT ![c] = p]
        /\ video_semaphore' = video_semaphore
        /\ vpc' = [vpc EXCEPT ![i][k] = ended]

\* the video task counts its video under processing_lock (update_progress)
\* and leaves the video semaphore, returning ("done") or raising ("raised")
\* into the gather of its batch; error_count, which nothing reads back, is
\* left out
VideoFinish(i, k, video_success, ended) ==
    LET c == channel_inputs[i]
        p == update_progress(channel_progress[c], video_success)
    IN  /\ channel_progress' = [channel_progress EXCEPT ![c] = p]
        /\ video_semaphore' = video_semaphore + 1
        /\ vpc' = [vpc EXCEPT ![i][k] = ended]

\* get_transcript returns a transcript or None (it catches the failures of
\* both of its sources)
FetchReturn(i, k, transcript) ==
    /\ vpc[i][k] = "fetching"
    /\ IF transcript /\ output_configured
       THEN /\ vpc' = [vpc EXCEPT ![i][k] = "exporting"]
            /\ UNCHANGED <<channel_progress, video_semaphore>>
       ELSE VideoFinish(i, k, transcript, "done")
    /\ UNCHANGED <<max_channels, concurrent_limit, batch_size, output_configured, skip_checks, list_limit, filter_raised,
                   channel_inputs, mpc, batch_result, channel_semaphore, wpc,
                   queue, fetches>>
    /\ UNCHANGED notb

\* export_service.export_transcript returns or raises; the except branch
\* of _process_single_video counts the video as failed and raises again
ExportReturn(i, k, raised) ==
    /\ vpc[i][k] = "exporting"
    /\ VideoFinish(i, k, ~raised, IF raised THEN "raised" ELSE "done")
    /\ UNCHANGED <<max_channels, concurrent_limit, batch_size, output_configured, skip_checks, list_limit, filter_raised,
                   channel_inputs, mpc, batch_result, channel_semaphore, wpc,
                   queue, fetches>>
    /\ UNCHANGED notb

\* slip: the gather of a batch returns with its first finished video task
BatchGathered_First(i) ==
    \E k \in DOMAIN vpc[i] : vpc[i][k] \in VideoDone

\* asyncio.gather(*tasks, return_exceptions=True) of _process_video_batch
\* returns when every video task of the batch has returned or raised
BatchGathered(i) ==
    \A k \in DOMAIN vpc[i] : vpc[i][k] \in VideoDone \cup {"queued"}

\* asyncio.gather of _process_video_batch returns (the exceptions of the
\* video tasks are only logged), then progress_callback, when one is given,
\* returns or raises
BatchDone(i, raised) ==
    /\ wpc[i] = "batch"
    /\ BatchGathered(i)
    /\ IF raised
       THEN FailChannel(i)
       ELSE /\ wpc' = [wpc EXCEPT ![i] = "queue_loop"]
            /\ UNCHANGED <<channel_progress, batch_result, channel_semaphore>>
    /\ UNCHANGED <<max_channels, concurrent_limit, batch_size, output_configured, skip_checks, list_limit, filter_raised,
                   channel_inputs, mpc, video_semaphore, queue, vpc, fetches>>
    /\ UNCHANGED notb

\* slip: gather without return_exceptions returns at the first exception
GatherReady_FirstException ==
    \/ \A i \in Workers : wpc[i] \in DonePc
    \/ \E i \in Workers : wpc[i] = "done_exc"

\* asyncio.gather(*tasks, return_exceptions=True) over the channel tasks
\* returns when every task has returned or raised
GatherReady == \A i \in Workers : wpc[i] \in DonePc

\* the loop over the gathered results, then the end of process_channels_batch
GatherDone ==
    /\ mpc = "gather"
    /\ GatherReady
    /\ channel_progress' =
          [c \in DOMAIN channel_progress |->
             IF \E i \in Workers : channel_inputs[i] = c /\ wpc[i] = "done_exc"
             THEN [channel_progress[c] EXCEPT !.status = "failed",
                                              !.error_message = "recorded"]
             ELSE channel_progress[c]]
    /\ mpc' = "returned"
    /\ UNCHANGED <<max_channels, concurrent_limit, batch_size, output_configured, skip_checks, list_limit, filter_raised,
                   channel_inputs, batch_result, channel_semaphore,
                   video_semaphore, wpc, queue, vpc, fetches>>
    /\ UNCHANGED notb

BNext ==
    \/ ProcessStart
    \/ \E i \in Workers : AcquireChannel(i)
    \/ \E i \in Workers, r \in {"found", "none", "raise"} : GetChannelReturn(i, r)
    \/ \E i \in Workers, raised \in BOOLEAN, n \in 0..list_limit :
          GetVideosReturn(i, raised, n)
    \/ \E i \in Workers, memory_ok \in BOOLEAN : QueueLoop(i, memory_ok)
    \/ \E i \in Workers : MemoryWake(i)
    \/ \E i \in Workers : \E k \in DOMAIN vpc[i] : VideoAcquire(i, k)
    \/ \E i \in Workers : \E k \in DOMAIN vpc[i], t \in BOOLEAN : FetchReturn(i, k, t)
    \/ \E i \in Workers : \E k \in DOMAIN vpc[i], r \in BOOLEAN : ExportReturn(i, k, r)
    \/ \E i \in Workers, raised \in BOOLEAN : BatchDone(i, raised)
    \/ GatherDone

\* ------------------------------------- application/batch_orchestrator.py
\* the order of the keys of a dict of channels
ChannelOrder == <<"a", "b">>

\* the progress file: absent, not JSON, or a JSON object with
\* processed_channels and the records of channel_progress in their order;
\* the record with status "invalid" is one that ChannelProgress(**data)
\* rejects
NoFile == [kind |-> "absent", processed_channels |-> {}, channel_progress |-> << >>]
GarbledFile == [kind |-> "garbled", processed_channels |-> {}, channel_progress |-> << >>]
JsonFile(processed, records) ==
    [kind |-> "json", processed_channels |-> processed, channel_progress |-> records]

FileInputs ==
    {NoFile, GarbledFile,
     JsonFile({}, << >>),
     JsonFile({"a"}, << <<"a", "completed">> >>),
     JsonFile({"a"}, << <<"a", "completed">>, <<"b", "processing">> >>),
     JsonFile({"a"}, << <<"a", "completed">>, <<"b", "invalid">> >>)}

\* the number of records that the restore loop of _load_progress gets
\* through before ChannelProgress(**progress_data) raises
RECURSIVE RestoredCount(_)
RestoredCount(records) ==
    IF records = << >> \/ records[1][2] = "invalid"
    THEN 0
    ELSE 1 + RestoredCount(Tail(records))

\* self.channel_progress after these records were restored
RestoredProgress(records, n) ==
    [c \in {records[k][1] : k \in 1..n} |->
        records[CHOOSE k \in 1..n : records[k][1] = c][2]]

\* the data that _save_progress dumps
SavedAs(processed, progress) ==
    LET keys == SelectSeq(ChannelOrder, LAMBDA c : c \in DOMAIN progress)
    IN  JsonFile(processed, [k \in 1..Len(keys) |-> <<keys[k], progress[keys[k]]>>])
SavedFile == SavedAs(o_processed, o_progress)

\* BatchChannelOrchestrator.__init__; the caller has not called anything
OInit ==
    /\ progress_file \in FileInputs
    /\ save_progress \in BOOLEAN
    /\ opc = "new"
    /\ o_session = FALSE
    /\ o_processed = {}
    /\ o_progress = << >>
    /\ o_semaphore = max_channels
    /\ fpc = << >>
    /\ o_calls = 0
    /\ resumed = {}
    /\ load_failed = FALSE
    /\ flushed = "no"

\* no orchestrator: the processor is used on its own
OInitIdle ==
    /\ progress_file = NoFile
    /\ save_progress = FALSE
    /\ opc = "none"
    /\ o_session = FALSE
    /\ o_processed = {}
    /\ o_progress = << >>
    /\ o_semaphore = max_channels
    /\ fpc = << >>
    /\ o_calls = 0
    /\ resumed = {}
    /\ load_failed = FALSE
    /\ flushed = "no"

\* the progress file after the "with open(self.progress_file, 'w')" of
\* _save_progress and the json.dump into it: written; not opened, and so
\* as it was; or opened, which empties it, and then not written to the end,
\* which leaves a file that is not JSON. The except branch only logs.
WriteOutcomes == {"ok", "open_failed", "cut"}
Written(write, saved) ==
    IF write = "ok" THEN saved
    ELSE IF write = "cut" THEN GarbledFile
    ELSE progress_file

\* the positions of a caller that has no call of the orchestrator running
BetweenCalls == {"new", "returned", "error", "raised", "closed"}

\* _load_progress: the effect on _processed_channels, channel_progress
Load ==
    LET f == progress_file
        n == RestoredCount(f.channel_progress)
        restored == RestoredProgress(f.channel_progress, n)
    IN  IF f.kind = "absent"
        THEN /\ UNCHANGED <<o_processed, o_progress, load_failed, resumed>>
        ELSE IF f.kind = "garbled"
        THEN /\ load_failed' = TRUE
             /\ UNCHANGED <<o_processed, o_progress, resumed>>
        ELSE /\ o_processed' = f.processed_channels
             /\ resumed' = f.processed_channels
             /\ o_progress' = [c \in DOMAIN o_progress \cup DOMAIN restored |->
                                 IF c \in DOMAIN restored THEN restored[c]
                                 ELSE o_progress[c]]
             /\ load_failed' = (n < Len(f.channel_progress))

\* a call of _load_progress itself. Its one caller in the repository is
\* the last statement of setup(), which setup() does not get to.
LoadProgress ==
    /\ opc \in BetweenCalls
    /\ Load
    /\ UNCHANGED <<progress_file, save_progress, opc, o_session, o_semaphore,
                   fpc, o_calls, flushed>>
    /\ UNCHANGED bvars
    /\ UNCHANGED noto

\* __aenter__ / setup: the session is made, then the call
\* YouTubeAPIRepository(api_key=, session=, quota_limit=) raises TypeError,
\* as __init__ takes api_key and session only. No service and no
\* multi_channel_processor is made, _load_progress is not called, and an
\* "async with" does not get into its block.
Setup ==
    /\ opc \in BetweenCalls
    /\ o_session' = TRUE
    /\ UNCHANGED <<progress_file, save_progress, opc, o_processed, o_progress,
                   o_semaphore, fpc, o_calls, resumed, load_failed, flushed>>
    /\ UNCHANGED bvars
    /\ UNCHANGED noto

\* channel_progress after the first loop of process_channels
PendingAdded ==
    [c \in DOMAIN o_progress \cup (Range(channel_inputs) \ o_processed) |->
        IF c \in Range(channel_inputs) \ o_processed THEN "pending" ELSE o_progress[c]]

\* process_channels: there is no multi_channel_processor, so
\* _process_channels_concurrent makes a task for every input that is not in
\* _processed_channels
ProcessFallback ==
    /\ opc \in BetweenCalls
    /\ o_calls < MaxProcessCalls
    /\ o_calls' = o_calls + 1
    /\ opc' = "fallback"
    /\ o_progress' = PendingAdded
    /\ fpc' = [i \in 1..Len(channel_inputs) |->
                 IF channel_inputs[i] \in o_processed THEN "skipped" ELSE "spawned"]
    /\ UNCHANGED <<progress_file, save_progress, o_session, o_processed,
                   o_semaphore, resumed, load_failed, flushed>>
    /\ UNCHANGED bvars
    /\ UNCHANGED noto

\* process_single_channel: async with self.channel_semaphore, up to the
\* construction of the TranscriptOrchestrator
FallbackAcquire(i) ==
    /\ opc = "fallback"
    /\ fpc[i] = "spawned"
    /\ o_semaphore > 0
    /\ o_semaphore' = o_semaphore - 1
    /\ o_progress' = [o_progress EXCEPT ![channel_inputs[i]] = "processing"]
    /\ fpc' = [fpc EXCEPT ![i] = "processing"]
    /\ UNCHANGED <<progress_file, save_progress, opc, o_session, o_processed,
                   o_calls, resumed, load_failed, flushed>>
    /\ UNCHANGED bvars
    /\ UNCHANGED noto

\* the try of process_single_channel ends in its except branch, with no
\* await since the semaphore was taken:
\* TranscriptOrchestrator(self.settings) raises TypeError, as its __init__
\* makes a ChannelService(), whose YouTubeAPIRepository() lacks api_key and
\* session. The channel is failed; the lines that complete it, add it to
\* _processed_channels and save the progress are not reached.
FallbackReturn(i) ==
    LET c == channel_inputs[i]
    IN  /\ opc = "fallback"
        /\ fpc[i] = "processing"
        /\ fpc' = [fpc EXCEPT ![i] = "done"]
        /\ o_semaphore' = o_semaphore + 1
        /\ o_progress' = [o_progress EXCEPT ![c] = "failed"]
        /\ UNCHANGED <<progress_file, save_progress, opc, o_session,
                       o_processed, o_calls, resumed, load_failed, flushed>>
        /\ UNCHANGED bvars
        /\ UNCHANGED noto

\* the gather of the fallback tasks returns, then the summary and
\* _save_batch_report, whose first line, output_directory / "...", is
\* outside its try and raises TypeError when there is no output_directory
FallbackDone ==
    /\ opc = "fallback"
    /\ \A i \in DOMAIN fpc : fpc[i] \in {"skipped", "done"}
    /\ opc' = IF output_configured THEN "returned" ELSE "error"
    /\ UNCHANGED <<progress_file, save_progress, o_session, o_processed,
                   o_progress, o_semaphore, fpc, o_calls, resumed, load_failed,
                   flushed>>
    /\ UNCHANGED bvars
    /\ UNCHANGED noto

\* a task that is cancelled leaves its semaphore (async with) and keeps the
\* status it had: except Exception does not catch the cancellation
Cancelled(pcs) ==
    [i \in DOMAIN pcs |-> IF pcs[i] \in {"done", "skipped"}
                          THEN pcs[i] ELSE "cancelled"]

\* a process-level interrupt arrives while the channel tasks are gathered:
\* the tasks are cancelled and the interrupt leaves process_channels
Interrupt ==
    /\ opc = "fallback"
    /\ opc' = "interrupted"
    /\ fpc' = Cancelled(fpc)
    /\ o_semaphore' = max_channels
    /\ UNCHANGED <<progress_file, save_progress, o_session, o_processed,
                   o_progress, o_calls, resumed, load_failed, flushed>>
    /\ UNCHANGED bvars
    /\ UNCHANGED noto

\* process_channels has no handler, and no "async with" block was entered
\* whose __aexit__ could run: nothing stands between the interrupt and the
\* caller
Propagate ==
    /\ opc = "interrupted"
    /\ opc' = "raised"
    /\ UNCHANGED <<progress_file, save_progress, o_session, o_processed,
                   o_progress, o_semaphore, fpc, o_calls, resumed, load_failed,
                   flushed>>
    /\ UNCHANGED bvars
    /\ UNCHANGED noto

\* cleanup, called by the caller: the progress is saved if save_progress,
\* then the session, if there is one, is closed
Cleanup(write) ==
    /\ opc \in BetweenCalls
    /\ opc' = "closed"
    /\ progress_file' = IF save_progress THEN Written(write, SavedFile)
                        ELSE progress_file
    /\ flushed' = IF ~save_progress THEN "no"
                  ELSE IF write = "ok" THEN "written" ELSE "failed"
    /\ o_session' = FALSE
    /\ UNCHANGED <<save_progress, o_processed, o_progress, o_semaphore, fpc,
                   o_calls, resumed, load_failed>>
    /\ UNCHANGED bvars
    /\ UNCHANGED noto

\* ------------------------------------------- utils/retry.py: RetryManager
\* Each invocation of func returns ("ok"), raises an exception that the
\* exceptions argument covers ("fail"), or raises one it does not cover
\* ("other": with the default, Exception, a BaseException such as a
\* cancellation).  A value or an error is named by the invocation it came
\* from.

AttemptInputs == 0..MaxAttempts
DelayInputs == {1, 2}
BackoffInputs == {1, 2}

RECURSIVE Pow(_, _)
Pow(b, e) == IF e = 0 THEN 1 ELSE b * Pow(b, e - 1)

\* wait_time = self.delay * (self.backoff ** attempt)
WaitTime(attempt) == rt_delay * Pow(rt_backoff, attempt)

NoResult == [kind |-> "none", at |-> 0]

RtInit ==
    /\ rt_max \in AttemptInputs
    /\ rt_delay \in DelayInputs
    /\ rt_backoff \in BackoffInputs
    /\ rt_pc = "idle"
    /\ rt_attempt = 0
    /\ rt_last_exception = 0
    /\ rt_invoked = 0
    /\ rt_outcomes = << >>
    /\ rt_result = NoResult
    /\ rt_slept = 0
    /\ rt_sleeps = << >>

\* a manager that nobody calls
RtInitIdle == RtInit /\ rt_max = 1 /\ rt_delay = 1 /\ rt_backoff = 1

\* for attempt in range(self.max_attempts): whether another round follows
\* the round of this attempt
\* slip: one round too many
LoopContinues_Inclusive(attempt) == attempt + 1 <= rt_max
LoopContinues(attempt) == attempt + 1 < rt_max

\* if attempt < self.max_attempts - 1
\* slip: a sleep follows the last attempt as well
RetriesLeft_Inclusive(attempt) == attempt <= rt_max - 1
RetriesLeft(attempt) == attempt < rt_max - 1

\* execute is called: the loop is entered, or with no round to run
\* "raise last_exception" raises None, which is a TypeError
RtExecute ==
    /\ rt_pc = "idle"
    /\ rt_last_exception' = 0
    /\ rt_attempt' = 0
    /\ IF rt_max >= 1
       THEN rt_pc' = "calling" /\ rt_result' = rt_result
       ELSE rt_pc' = "raised" /\ rt_result' = [kind |-> "TypeError", at |-> 0]
    /\ UNCHANGED <<rt_max, rt_delay, rt_backoff, rt_invoked, rt_outcomes,
                   rt_slept, rt_sleeps>>
    /\ UNCHANGED notrt

\* one round of the loop: func is invoked
RtInvoke(outcome) ==
    /\ rt_pc = "calling"
    /\ rt_invoked' = rt_invoked + 1
    /\ rt_outcomes' = Append(rt_outcomes, outcome)
    /\ CASE outcome = "ok" ->
              /\ rt_pc' = "returned"
              /\ rt_result' = [kind |-> "value", at |-> rt_invoked']
              /\ UNCHANGED <<rt_last_exception, rt_attempt>>
         [] outcome = "other" ->
              /\ rt_pc' = "raised"
              /\ rt_result' = [kind |-> "error", at |-> rt_invoked']
              /\ UNCHANGED <<rt_last_exception, rt_attempt>>
         [] outcome = "fail" ->
              /\ rt_last_exception' = rt_invoked'
              /\ IF RetriesLeft(rt_attempt)
                 THEN /\ rt_pc' = "sleeping"
                      /\ UNCHANGED <<rt_attempt, rt_result>>
                 ELSE IF LoopContinues(rt_attempt)
                 THEN /\ rt_pc' = "calling"
                      /\ rt_attempt' = rt_attempt + 1
                      /\ UNCHANGED rt_result
                 ELSE /\ rt_pc' = "raised"
                      /\ rt_result' = [kind |-> "error", at |-> rt_last_exception']
                      /\ UNCHANGED rt_attempt
    /\ rt_sleeps' = IF outcome = "fail" /\ RetriesLeft(rt_attempt)
                    THEN Append(rt_sleeps, WaitTime(rt_attempt))
                    ELSE rt_sleeps
    /\ UNCHANGED <<rt_max, rt_delay, rt_backoff, rt_slept>>
    /\ UNCHANGED notrt

\* await asyncio.sleep(wait_time) is over: the next round, if there is one
RtWake ==
    /\ rt_pc = "sleeping"
    /\ rt_slept' = rt_slept + WaitTime(rt_attempt)
    /\ IF LoopContinues(rt_attempt)
       THEN /\ rt_pc' = "calling"
            /\ rt_attempt' = rt_attempt + 1
            /\ UNCHANGED rt_result
       ELSE /\ rt_pc' = "raised"
            /\ rt_result' = [kind |-> "error", at |-> rt_last_exception]
            /\ UNCHANGED rt_attempt
    /\ UNCHANGED <<rt_max, rt_delay, rt_backoff, rt_last_exception, rt_invoked,
                   rt_outcomes, rt_sleeps>>
    /\ UNCHANGED notrt

RtNext ==
    \/ RtExecute
    \/ \E outcome \in {"ok", "fail", "other"} : RtInvoke(outcome)
    \/ RtWake

\* ------------------------- utils/error_handler_enhanced.py: ErrorHandler
\* the keys of ERROR_PATTERNS, in the order of the dict
PatternOrder ==
    <<"network", "connection", "403", "404", "429", "quota", "timeout",
      "transcript", "no transcript">>

\* ERROR_PATTERNS[pattern]["category"]
PatternCategory(pattern) ==
    CASE pattern \in {"network", "connection"} -> "Network Error"
      [] pattern = "403" -> "Permission Error"
      [] pattern = "404" -> "Not Found"
      [] pattern = "429" -> "Rate Limit"
      [] pattern = "quota" -> "Quota Exceeded"
      [] pattern = "timeout" -> "Timeout"
      [] OTHER -> "Transcript Error"

\* the exception types that categorize_error tells apart
ExceptionTypes == {"TimeoutError", "PermissionError", "ValueError"}

\* the texts an exception can have, as the sets of patterns they contain:
\* a text that contains "no transcript" contains "transcript"
ErrorInputs ==
    {e \in [matches : SUBSET Range(PatternOrder), type : ExceptionTypes] :
        "no transcript" \in e.matches => "transcript" \in e.matches}

\* ErrorHandler.categorize_error(error): the category of the first pattern
\* found in the text, else by the type of the exception, else unknown
categorize_error(error) ==
    IF error.matches # {}
    THEN LET first == CHOOSE n \in DOMAIN PatternOrder :
                        /\ PatternOrder[n] \in error.matches
                        /\ \A m \in 1..(n - 1) : PatternOrder[m] \notin error.matches
         IN  PatternCategory(PatternOrder[first])
    ELSE IF error.type = "TimeoutError" THEN "Timeout"
    ELSE IF error.type = "PermissionError" THEN "Permission Error"
    ELSE "Unknown Error"

\* strategies[ErrorCategory.UNKNOWN]
UnknownStrategy ==
    [retry |-> TRUE, retry_count |-> 1, fallback |-> "log_and_continue"]

\* ErrorHandler.get_recovery_strategy(error_category); a strategy without
\* a retry_count has retry_count 0 here
get_recovery_strategy(error_category) ==
    CASE error_category = "Network Error" ->
            [retry |-> TRUE, retry_count |-> 3, fallback |-> "offline_mode"]
      [] error_category = "Rate Limit" ->
            [retry |-> TRUE, retry_count |-> 1, fallback |-> "reduce_rate"]
      [] error_category = "Quota Exceeded" ->
            [retry |-> FALSE, retry_count |-> 0, fallback |-> "wait_for_reset"]
      [] error_category = "Timeout" ->
            [retry |-> TRUE, retry_count |-> 2, fallback |-> "reduce_batch_size"]
      [] error_category = "Transcript Error" ->
            [retry |-> FALSE, retry_count |-> 0, fallback |-> "skip_video"]
      [] error_category \in {"Not Found", "Permission Error"} ->
            [retry |-> FALSE, retry_count |-> 0, fallback |-> "skip_resource"]
      [] OTHER -> UnknownStrategy

NoStrategy == [retry |-> FALSE, retry_count |-> 0, fallback |-> "none"]

EhInit ==
    /\ eh_error \in ErrorInputs
    /\ eh_pc = "raised"
    /\ eh_category = "none"
    /\ eh_strategy = NoStrategy

\* no exception to classify
EhInitIdle == EhInit /\ eh_error = [matches |-> {}, type |-> "ValueError"]

\* categorize_error is called with the exception
EhCategorize ==
    /\ eh_pc = "raised"
    /\ eh_category' = categorize_error(eh_error)
    /\ eh_pc' = "categorized"
    /\ UNCHANGED <<eh_error, eh_strategy>>
    /\ UNCHANGED noteh

\* get_recovery_strategy is called with the category
EhStrategy ==
    /\ eh_pc = "categorized"
    /\ eh_strategy' = get_recovery_strategy(eh_category)
    /\ eh_pc' = "decided"
    /\ UNCHANGED <<eh_error, eh_category>>
    /\ UNCHANGED noteh

EhNext ==
    \/ EhCategorize
    \/ EhStrategy

\* ------------------------ utils/rate_limiter.py: SlidingWindowRateLimiter
\* Time is counted in whole seconds.
SWCallers == {1, 2}
MaxRequests == {1, 2}
WindowSeconds == {1, 2}

\* SlidingWindowRateLimiter.__init__
SwInit ==
    /\ sw_max \in MaxRequests
    /\ sw_window \in WindowSeconds
    /\ sw_requests = << >>
    /\ sw_lock = 0
    /\ sw_pc = [w \in SWCallers |-> "idle"]
    /\ sw_wake = [w \in SWCallers |-> 0]
    /\ sw_now = 0
    /\ sw_nticks = 0
    /\ sw_ncalls = 0
    /\ sw_granted = 0

\* a limiter that nobody calls
SwInitIdle == SwInit /\ sw_max = 1 /\ sw_window = 1

\* while self.requests and self.requests[0] <= now - self.window_seconds:
\*     self.requests.popleft()
RECURSIVE DropExpired(_, _)
DropExpired(requests, t) ==
    IF requests # << >> /\ Head(requests) <= t - sw_window
    THEN DropExpired(Tail(requests), t)
    ELSE requests

\* a second passes while nobody sleeps
SwTick ==
    /\ \A w \in SWCallers : sw_pc[w] # "sleeping"
    /\ sw_nticks < MaxWindowTicks
    /\ sw_nticks' = sw_nticks + 1
    /\ sw_now' = sw_now + 1
    /\ UNCHANGED <<sw_max, sw_window, sw_requests, sw_lock, sw_pc, sw_wake,
                   sw_ncalls, sw_granted>>
    /\ UNCHANGED notsw

\* a caller calls acquire and comes to "async with self._lock"
SwCall(w) ==
    /\ sw_pc[w] = "idle"
    /\ sw_ncalls < MaxWindowCalls
    /\ sw_ncalls' = sw_ncalls + 1
    /\ sw_pc' = [sw_pc EXCEPT ![w] = "locking"]
    /\ UNCHANGED <<sw_max, sw_window, sw_requests, sw_lock, sw_wake, sw_now,
                   sw_nticks, sw_granted>>
    /\ UNCHANGED notsw

\* the lock is free and given to the caller, or to the acquire that the
\* caller called from inside acquire: the body up to asyncio.sleep, or to
\* its end, where the lock is released
SwEnter(w) ==
    LET requests == DropExpired(sw_requests, sw_now)
    IN  /\ sw_pc[w] \in {"locking", "relocking"}
        /\ sw_lock = 0
        /\ IF Len(requests) >= sw_max
           THEN /\ sw_requests' = requests
                /\ sw_lock' = w
                /\ sw_wake' = [sw_wake EXCEPT ![w] =
                                  sw_now + (sw_window - (sw_now - requests[1]))]
                /\ sw_pc' = [sw_pc EXCEPT ![w] = "sleeping"]
                /\ UNCHANGED sw_granted
           ELSE /\ sw_requests' = Append(requests, sw_now)
                /\ sw_granted' = sw_granted + 1
                /\ sw_pc' = [sw_pc EXCEPT ![w] = "idle"]
                /\ UNCHANGED <<sw_lock, sw_wake>>
        /\ UNCHANGED <<sw_max, sw_window, sw_now, sw_nticks, sw_ncalls>>
        /\ UNCHANGED notsw

\* await asyncio.sleep(sleep_time): the time passes until the sleep is over
SwSleepElapses(w) ==
    /\ sw_pc[w] = "sleeping"
    /\ sw_now < sw_wake[w]
    /\ sw_now' = sw_wake[w]
    /\ UNCHANGED <<sw_max, sw_window, sw_requests, sw_lock, sw_pc, sw_wake,
                   sw_nticks, sw_ncalls, sw_granted>>
    /\ UNCHANGED notsw

\* the sleep is over: await self.acquire() is called with the lock still
\* held, and comes to "async with self._lock"
SwWake(w) ==
    /\ sw_pc[w] = "sleeping"
    /\ sw_now >= sw_wake[w]
    /\ sw_pc' = [sw_pc EXCEPT ![w] = "relocking"]
    /\ UNCHANGED <<sw_max, sw_window, sw_requests, sw_lock, sw_wake, sw_now,
                   sw_nticks, sw_ncalls, sw_granted>>
    /\ UNCHANGED notsw

SwNext ==
    \/ SwTick
    \/ \E w \in SWCallers : SwCall(w)
    \/ \E w \in SWCallers : SwEnter(w)
    \/ \E w \in SWCallers : SwSleepElapses(w)
    \/ \E w \in SWCallers : SwWake(w)

\* the event loop lets the sleeps end, resumes the sleepers and gives the
\* free lock to a caller that waits for it
SwFairness ==
    \A w \in SWCallers :
        /\ WF_vars(SwSleepElapses(w))
        /\ WF_vars(SwWake(w))
        /\ SF_vars(SwEnter(w))

\* ------------------ services/transcript_service.py: the fetch of one item
\* TranscriptService.get_transcript(video, language, use_fallback=True) as
\* _process_single_video calls it.  RetryManager.execute invokes the
\* repository's get_transcript, which catches every Exception and returns
\* None, so execute sees no failure and invokes it once; the retrying is
\* done inside the repository, by _fetch_transcript under async_retry.

ErrorCategories ==
    {"network", "timeout", "rate_limit", "quota_exceeded", "not_found",
     "permission", "transcript_unavailable", "unknown"}

FtInit ==
    /\ ft_category \in ErrorCategories
    /\ ft_pc = "idle"
    /\ ft_attempt = 0
    /\ ft_repo_calls = 0
    /\ ft_api_calls = 0
    /\ ft_api_failures = 0
    /\ ft_ytdlp_calls = 0
    /\ ft_result = "pending"

\* a service that nobody calls
FtInitIdle == FtInit /\ ft_category = "network"

\* get_transcript up to the first call of the API: _get_from_transcript_api,
\* RetryManager.execute, the repository's get_transcript, _fetch_transcript
FtStart ==
    /\ ft_pc = "idle"
    /\ ft_pc' = "primary"
    /\ ft_attempt' = 0
    /\ ft_repo_calls' = ft_repo_calls + 1
    /\ UNCHANGED <<ft_category, ft_api_calls, ft_api_failures, ft_ytdlp_calls,
                   ft_result>>
    /\ UNCHANGED notft

\* what follows a call of the API that did not raise: a transcript list
\* becomes the result; an empty one makes the repository return None, and
\* the service goes on to yt-dlp
ApiReturned(outcome) ==
    IF outcome = "ok"
    THEN ft_pc' = "done" /\ ft_result' = "transcript"
    ELSE ft_pc' = "fallback" /\ ft_result' = ft_result

\* YouTubeTranscriptApi.get_transcript(video_id, [language, "en", "ja"])
FtPrimary(outcome) ==
    /\ ft_pc = "primary"
    /\ ft_api_calls' = ft_api_calls + 1
    /\ IF outcome = "raise"
       THEN /\ ft_api_failures' = ft_api_failures + 1
            /\ ft_pc' = "secondary"
            /\ UNCHANGED ft_result
       ELSE /\ ApiReturned(outcome)
            /\ UNCHANGED ft_api_failures
    /\ UNCHANGED <<ft_category, ft_attempt, ft_repo_calls, ft_ytdlp_calls>>
    /\ UNCHANGED notft

\* if attempt < max_attempts - 1, in the async_retry wrapper
FetchRetriesLeft(attempt) == attempt < FetchMaxAttempts - 1

\* except Exception: YouTubeTranscriptApi.get_transcript(video_id); an
\* error here goes to the async_retry wrapper, which sleeps and starts
\* over or raises, and then the repository returns None
FtSecondary(outcome) ==
    /\ ft_pc = "secondary"
    /\ ft_api_calls' = ft_api_calls + 1
    /\ IF outcome = "raise"
       THEN /\ ft_api_failures' = ft_api_failures + 1
            /\ ft_pc' = IF FetchRetriesLeft(ft_attempt) THEN "backoff" ELSE "fallback"
            /\ UNCHANGED ft_result
       ELSE /\ ApiReturned(outcome)
            /\ UNCHANGED ft_api_failures
    /\ UNCHANGED <<ft_category, ft_attempt, ft_repo_calls, ft_ytdlp_calls>>
    /\ UNCHANGED notft

\* the sleep of the async_retry wrapper is over: the next attempt
FtBackoffWake ==
    /\ ft_pc = "backoff"
    /\ ft_pc' = "primary"
    /\ ft_attempt' = ft_attempt + 1
    /\ UNCHANGED <<ft_category, ft_repo_calls, ft_api_calls, ft_api_failures,
                   ft_ytdlp_calls, ft_result>>
    /\ UNCHANGED notft

\* _get_from_ytdlp: the run of yt-dlp gives a transcript or None
FtFallback(found) ==
    /\ ft_pc = "fallback"
    /\ ft_ytdlp_calls' = ft_ytdlp_calls + 1
    /\ ft_pc' = "done"
    /\ ft_result' = IF found THEN "transcript" ELSE "none"
    /\ UNCHANGED <<ft_category, ft_attempt, ft_repo_calls, ft_api_calls,
                   ft_api_failures>>
    /\ UNCHANGED notft

FtNext ==
    \/ FtStart
    \/ \E outcome \in {"ok", "empty", "raise"} : FtPrimary(outcome)
    \/ \E outcome \in {"ok", "empty", "raise"} : FtSecondary(outcome)
    \/ FtBackoffWake
    \/ \E found \in BOOLEAN : FtFallback(found)

\* ---------------------------------------- models/batch.py: ProcessingQueue
\* The queue on its own, with its list of ids; an id may occur twice.

VideoIds == {"v1", "v2"}
IdLists == UNION {[1..n -> VideoIds] : n \in 0..MaxQueueLen}
QueueBatchSizes == {1, 2}

\* s[a:b] as Python slices a list, for 0 <= a
Slice(s, a, b) == SubSeq(s, Min(a, Len(s)) + 1, Min(b, Len(s)))

\* self.current_index = end
\* slip: the cursor moves by one, not to the end of the slice
CursorAfter_ByOne(start, end) == Min(start + 1, end)
CursorAfter(start, end) == end

\* end = min(start + self.batch_size, len(self.video_ids))
\* slip: the end is not held at the length of the list
SliceEnd_NoClamp(q) == q.current_index + q.batch_size
SliceEnd(q) == Min(q.current_index + q.batch_size, Len(q.video_ids))

\* ProcessingQueue.is_complete, for a queue with its list
queue_is_complete(q) == q.current_index >= Len(q.video_ids)

\* ProcessingQueue.get_next_batch: the batch and the queue after the call
get_next_batch(q) ==
    LET start == q.current_index
        end == SliceEnd(q)
    IN  [batch |-> Slice(q.video_ids, start, end),
         queue |-> [q EXCEPT !.current_index = CursorAfter(start, end)]]

\* ProcessingQueue(channel_id, video_ids, batch_size), as the processor
\* builds it: current_index is its default, 0
PqInit ==
    /\ \E ids \in IdLists, size \in QueueBatchSizes :
          pq = [video_ids |-> ids, current_index |-> 0, batch_size |-> size]
    /\ pq_batches = << >>
    /\ pq_ncalls = 0

\* a queue that nobody calls
PqInitIdle == PqInit /\ pq.video_ids = << >> /\ pq.batch_size = 1

GetNextBatch ==
    /\ pq_ncalls < MaxBatchCalls
    /\ pq_ncalls' = pq_ncalls + 1
    /\ pq' = get_next_batch(pq).queue
    /\ pq_batches' = Append(pq_batches,
                            [ids |-> get_next_batch(pq).batch,
                             start |-> pq.current_index,
                             end |-> pq'.current_index])
    /\ UNCHANGED notpq

PqNext == GetNextBatch

\* ---------------------------------------- utils/rate_limiter.py: RateLimiter
\* Time is counted in whole seconds and per is a whole number of seconds
\* per token times the rate, so that allowance times the seconds per token
\* is a whole number; rl_allowance holds that product.

RLCallers == {1, 2}
Rates == {1, 2}
TokenSeconds == {1, 2}

\* acquire(1)
AcquireTokens == 1

\* self.per / self.rate
SecondsPerToken == rl_per \div rl_rate

RlInit ==
    /\ rl_rate \in Rates
    /\ \E q \in TokenSeconds : rl_per = rl_rate * q
    /\ rl_allowance = rl_rate * SecondsPerToken
    /\ rl_last_check = 0
    /\ rl_locked = FALSE
    /\ rl_pc = [w \in RLCallers |-> "idle"]
    /\ rl_wake_at = 0
    /\ rl_now = 0
    /\ rl_ncalls = 0
    /\ rl_completed = 0

\* a limiter that nobody calls
RlInitIdle == RlInit /\ rl_rate = 1 /\ rl_per = 1

\* the clock moves on
RlTick ==
    /\ rl_now < MaxClock
    /\ rl_now' = rl_now + 1
    /\ UNCHANGED <<rl_rate, rl_per, rl_allowance, rl_last_check, rl_locked,
                   rl_pc, rl_wake_at, rl_ncalls, rl_completed>>
    /\ UNCHANGED notrl

\* self.allowance += time_passed * (self.rate / self.per), capped at rate
Refilled ==
    Min(rl_allowance + (rl_now - rl_last_check), rl_rate * SecondsPerToken)

\* acquire up to its sleep, or to its end when there is none: the lock is
\* free, and nothing is awaited when the allowance suffices
RlAcquire(w) ==
    /\ rl_pc[w] = "idle"
    /\ ~rl_locked
    /\ rl_ncalls < MaxAcquires
    /\ rl_ncalls' = rl_ncalls + 1
    /\ rl_last_check' = rl_now
    /\ IF Refilled < AcquireTokens * SecondsPerToken
       THEN /\ rl_allowance' = Refilled
            /\ rl_wake_at' = rl_now + (AcquireTokens * SecondsPerToken - Refilled)
            /\ rl_locked' = TRUE
            /\ rl_pc' = [rl_pc EXCEPT ![w] = "sleeping"]
            /\ UNCHANGED rl_completed
       ELSE /\ rl_allowance' = Refilled - AcquireTokens * SecondsPerToken
            /\ rl_completed' = rl_completed + 1
            /\ UNCHANGED <<rl_locked, rl_pc, rl_wake_at>>
    /\ UNCHANGED <<rl_rate, rl_per, rl_now>>
    /\ UNCHANGED notrl

\* the sleep is over: allowance = tokens, allowance -= tokens, the lock is
\* released; last_check is left at the time before the sleep
RlWake(w) ==
    /\ rl_pc[w] = "sleeping"
    /\ rl_now >= rl_wake_at
    /\ rl_allowance' = 0
    /\ rl_locked' = FALSE
    /\ rl_pc' = [rl_pc EXCEPT ![w] = "idle"]
    /\ rl_completed' = rl_completed + 1
    /\ UNCHANGED <<rl_rate, rl_per, rl_last_check, rl_wake_at, rl_now, rl_ncalls>>
    /\ UNCHANGED notrl

RlNext ==
    \/ RlTick
    \/ \E w \in RLCallers : RlAcquire(w)
    \/ \E w \in RLCallers : RlWake(w)

\* --------------------------------- utils/error_handlers.py: CircuitBreaker
\* CircuitBreaker.__init__
CbInit ==
    /\ cb_threshold \in Thresholds
    /\ cb_timeout \in RecoveryTimeouts
    /\ cb_state = "closed"
    /\ cb_failure_count = 0
    /\ cb_last_failure_time = -1
    /\ cb_now = 0
    /\ cb_nticks = 0
    /\ cb_pc = [w \in CBCallers |-> "idle"]
    /\ cb_ncalls = 0
    /\ cb_invoked = 0
    /\ cb_rejected = 0
    /\ cb_streak = 0
    /\ cb_admit = [w \in CBCallers |-> "none"]
    /\ cb_probe = [w \in CBCallers |-> FALSE]
    /\ cb_run = 0

\* a breaker that nobody calls
CbInitIdle == CbInit /\ cb_threshold = 1 /\ cb_timeout = 1

\* slips: the breaker half-opens as soon as it is asked; it half-opens
\* when exactly recovery_timeout has passed
RecoveryElapsed_AtOnce == cb_last_failure_time # -1
RecoveryElapsed_AtTimeout ==
    cb_last_failure_time # -1 /\ cb_now - cb_last_failure_time >= cb_timeout

\* self._last_failure_time and
\* datetime.now() - self._last_failure_time > timedelta(seconds=recovery_timeout)
RecoveryElapsed ==
    cb_last_failure_time # -1 /\ cb_now - cb_last_failure_time > cb_timeout

\* the value of the property state, which moves an open breaker to
\* half_open when the recovery timeout is over
StateRead ==
    IF cb_state = "open" /\ RecoveryElapsed THEN "half_open" ELSE cb_state

\* the clock advances by a second
CbTick ==
    /\ cb_nticks < MaxBreakerTicks
    /\ cb_nticks' = cb_nticks + 1
    /\ cb_now' = cb_now + 1
    /\ UNCHANGED <<cb_threshold, cb_timeout, cb_state, cb_failure_count,
                   cb_last_failure_time, cb_pc, cb_ncalls, cb_invoked,
                   cb_rejected, cb_streak, cb_admit, cb_probe, cb_run>>
    /\ UNCHANGED notcb

\* somebody reads breaker.state
ReadState ==
    /\ cb_state # StateRead
    /\ cb_state' = StateRead
    /\ UNCHANGED <<cb_threshold, cb_timeout, cb_failure_count,
                   cb_last_failure_time, cb_now, cb_nticks, cb_pc, cb_ncalls,
                   cb_invoked, cb_rejected, cb_streak, cb_admit, cb_probe, cb_run>>
    /\ UNCHANGED notcb

\* async_call up to the await of func: the call is rejected (ProcessingError)
\* or func is invoked
CallBegin(w) ==
    /\ cb_pc[w] = "idle"
    /\ cb_ncalls < MaxBreakerCalls
    /\ cb_ncalls' = cb_ncalls + 1
    /\ cb_state' = StateRead
    /\ IF StateRead = "open"
       THEN /\ cb_rejected' = cb_rejected + 1
            /\ UNCHANGED <<cb_pc, cb_invoked, cb_admit, cb_probe>>
       ELSE /\ cb_invoked' = cb_invoked + 1
            /\ cb_pc' = [cb_pc EXCEPT ![w] = "running"]
            /\ cb_admit' = [cb_admit EXCEPT ![w] = StateRead]
            /\ cb_probe' = [cb_probe EXCEPT ![w] =
                               cb_state = "open" /\ StateRead = "half_open"]
            /\ UNCHANGED cb_rejected
    /\ UNCHANGED <<cb_threshold, cb_timeout, cb_failure_count,
                   cb_last_failure_time, cb_now, cb_nticks, cb_streak, cb_run>>
    /\ UNCHANGED notcb

\* slips: the breaker opens one failure late; a failure in half_open does
\* not open it
OpensOnFailure_Late(count) == count > cb_threshold
OpensOnFailure_CountReset(count) == cb_state # "half_open" /\ count >= cb_threshold

\* slip: the breaker opens at twice the threshold
OpensOnFailure_Double(count) == count >= 2 * cb_threshold

\* self._failure_count >= self.failure_threshold
OpensOnFailure(count) == count >= cb_threshold

\* the await of func is over: "ok" is a result (_on_success), "fail" an
\* exception of expected_exception (_on_failure), "other" an exception that
\* is not of expected_exception (the breaker is not told)
CallEnd(w, outcome) ==
    /\ cb_pc[w] = "running"
    /\ cb_pc' = [cb_pc EXCEPT ![w] = "idle"]
    /\ cb_admit' = [cb_admit EXCEPT ![w] = "none"]
    /\ cb_probe' = [cb_probe EXCEPT ![w] = FALSE]
    /\ cb_run' = IF outcome = "ok" THEN 0
                 ELSE IF outcome = "fail" THEN cb_run + 1 ELSE cb_run
    /\ IF outcome = "ok"
       THEN /\ cb_state' = IF cb_state = "half_open" THEN "closed" ELSE cb_state
            /\ cb_failure_count' = IF cb_state = "half_open" THEN 0 ELSE cb_failure_count
            /\ cb_streak' = IF cb_state = "half_open" THEN 0
                            ELSE IF cb_state = "closed" /\ cb_failure_count = 0
                            THEN 0 ELSE -1
            /\ UNCHANGED cb_last_failure_time
       ELSE IF outcome = "fail"
       THEN /\ cb_failure_count' = cb_failure_count + 1
            /\ cb_last_failure_time' = cb_now
            /\ cb_state' = IF OpensOnFailure(cb_failure_count + 1)
                           THEN "open" ELSE cb_state
            /\ cb_streak' = IF cb_streak >= 0 THEN cb_streak + 1 ELSE -1
       ELSE /\ cb_streak' = IF cb_state = "closed" /\ cb_failure_count = 0
                            THEN 0 ELSE -1
            /\ UNCHANGED <<cb_state, cb_failure_count, cb_last_failure_time>>
    /\ UNCHANGED <<cb_threshold, cb_timeout, cb_now, cb_nticks, cb_ncalls,
                   cb_invoked, cb_rejected>>
    /\ UNCHANGED notcb

CbNext ==
    \/ CbTick
    \/ ReadState
    \/ \E w \in CBCallers : CallBegin(w)
    \/ \E w \in CBCallers, outcome \in {"ok", "fail", "other"} : CallEnd(w, outcome)

\* a processor that is not asked to process anything
BInitIdle ==
    BInit /\ max_channels = 1 /\ concurrent_limit = 1 /\ batch_size = 1
          /\ ~output_configured /\ ~skip_checks /\ list_limit = MaxVideos /\ channel_inputs = << >>

\* the tracker alone, called by its workers
InitQuota == QInit /\ BInitIdle /\ OInitIdle /\ CbInitIdle /\ RtInitIdle /\ RlInitIdle /\ PqInitIdle /\ FtInitIdle /\ EhInitIdle /\ SwInitIdle
SpecQuota == InitQuota /\ [][QNext]_vars

\* the tracker, constructed ten minutes before midnight Pacific, and its
\* workers on an event loop that lets the sleeps of wait_until_available
\* run out and resumes the sleepers
WaitNext ==
    \/ QNext
    \/ SleepElapses
WaitFairness ==
    /\ WF_vars(SleepElapses)
    /\ \A w \in QWorkers : WF_vars(WaitWake(w))
InitWait == QInitAt(LateStart) /\ BInitIdle /\ OInitIdle /\ CbInitIdle /\ RtInitIdle /\ RlInitIdle /\ PqInitIdle /\ FtInitIdle /\ EhInitIdle /\ SwInitIdle
SpecWait == InitWait /\ [][WaitNext]_vars /\ WaitFairness

\* one call of process_channels_batch, given a fresh tracker
Init == QInit /\ daily_limit = 100 /\ BInit /\ ~skip_checks /\ list_limit = MaxVideos /\ OInitIdle /\ CbInitIdle /\ RtInitIdle /\ RlInitIdle /\ PqInitIdle /\ FtInitIdle /\ EhInitIdle /\ SwInitIdle
Next == BNext
Spec == Init /\ [][Next]_vars

\* one life of a BatchChannelOrchestrator and its caller: setup,
\* process_channels, an interrupt, cleanup
InitOrch == QInit /\ daily_limit = 100 /\ BInit /\ ~skip_checks /\ list_limit = MaxVideos /\ OInit /\ CbInitIdle /\ RtInitIdle /\ RlInitIdle /\ PqInitIdle /\ FtInitIdle /\ EhInitIdle /\ SwInitIdle
NextOrch ==
    \/ Setup
    \/ ProcessFallback
    \/ \E i \in DOMAIN fpc : FallbackAcquire(i)
    \/ \E i \in DOMAIN fpc : FallbackReturn(i)
    \/ FallbackDone
    \/ Interrupt
    \/ Propagate
    \/ \E write \in WriteOutcomes : Cleanup(write)
SpecOrch == InitOrch /\ [][NextOrch]_vars

\* the same with a caller that also calls _load_progress
NextLoad ==
    \/ LoadProgress
    \/ NextOrch
SpecLoad == InitOrch /\ [][NextLoad]_vars

\* a tracker that nobody calls
QInitIdle == QInit /\ daily_limit = 100

\* one CircuitBreaker and its callers
InitBreaker == QInitIdle /\ BInitIdle /\ OInitIdle /\ CbInit /\ RtInitIdle /\ RlInitIdle /\ PqInitIdle /\ FtInitIdle /\ EhInitIdle /\ SwInitIdle
SpecBreaker == InitBreaker /\ [][CbNext]_vars

\* one call of RetryManager.execute
InitRetry == QInitIdle /\ BInitIdle /\ OInitIdle /\ CbInitIdle /\ RtInit /\ RlInitIdle /\ PqInitIdle /\ FtInitIdle /\ EhInitIdle /\ SwInitIdle
SpecRetry == InitRetry /\ [][RtNext]_vars

\* one RateLimiter and its callers
InitLimiter == QInitIdle /\ BInitIdle /\ OInitIdle /\ CbInitIdle /\ RtInitIdle /\ RlInit /\ PqInitIdle /\ FtInitIdle /\ EhInitIdle /\ SwInitIdle
SpecLimiter == InitLimiter /\ [][RlNext]_vars

\* one ProcessingQueue and the calls of get_next_batch
InitQueue == QInitIdle /\ BInitIdle /\ OInitIdle /\ CbInitIdle /\ RtInitIdle /\ RlInitIdle /\ PqInit /\ FtInitIdle /\ EhInitIdle /\ SwInitIdle
SpecQueue == InitQueue /\ [][PqNext]_vars

\* the fetch of one item's transcript
InitFetch == QInitIdle /\ BInitIdle /\ OInitIdle /\ CbInitIdle /\ RtInitIdle /\ RlInitIdle /\ PqInitIdle /\ FtInit /\ EhInitIdle /\ SwInitIdle
SpecFetch == InitFetch /\ [][FtNext]_vars

\* one call of process_channels_batch with the skip settings on or off
InitSkip == QInitIdle /\ BInit /\ list_limit = MaxVideos /\ OInitIdle /\ CbInitIdle /\ RtInitIdle /\ RlInitIdle /\ PqInitIdle /\ FtInitIdle /\ EhInitIdle /\ SwInitIdle
SpecSkip == InitSkip /\ [][BNext]_vars

\* one call of process_channels_batch for one channel with a list of
\* several videos
InitOrder == QInitIdle /\ BInit /\ ~skip_checks /\ list_limit = LongList /\ Len(channel_inputs) = 1 /\ OInitIdle /\ CbInitIdle /\ RtInitIdle /\ RlInitIdle /\ PqInitIdle /\ FtInitIdle /\ EhInitIdle /\ SwInitIdle
SpecOrder == InitOrder /\ [][BNext]_vars

\* the classification of one exception
InitClassify == QInitIdle /\ BInitIdle /\ OInitIdle /\ CbInitIdle /\ RtInitIdle /\ RlInitIdle /\ PqInitIdle /\ FtInitIdle /\ EhInit /\ SwInitIdle
SpecClassify == InitClassify /\ [][EhNext]_vars

\* one SlidingWindowRateLimiter and its callers
InitWindow == QInitIdle /\ BInitIdle /\ OInitIdle /\ CbInitIdle /\ RtInitIdle /\ RlInitIdle /\ PqInitIdle /\ FtInitIdle /\ EhInitIdle /\ SwInit
SpecWindow == InitWindow /\ [][SwNext]_vars /\ SwFairness

\* every step but a failed memory check and the sleep that follows it
Progress ==
    \/ ProcessStart
    \/ GatherDone
    \/ \E i \in Workers :
          \/ AcquireChannel(i)
          \/ \E r \in {"found", "none", "raise"} : GetChannelReturn(i, r)
          \/ \E raised \in BOOLEAN, n \in 0..list_limit : GetVideosReturn(i, raised, n)
          \/ QueueLoop(i, TRUE)
          \/ \E raised \in BOOLEAN : BatchDone(i, raised)
          \/ \E k \in DOMAIN vpc[i] :
                \/ VideoAcquire(i, k)
                \/ \E t \in BOOLEAN : FetchReturn(i, k, t)
                \/ \E r \in BOOLEAN : ExportReturn(i, k, r)

\* The event loop keeps running the tasks that can run: collaborator calls
\* return or raise, semaphore waiters are woken, gathers return (a step of
\* Progress is taken as long as one is possible again and again); a sleep
\* after a failed memory check ends; the memory check passes at last.
Fairness ==
    /\ SF_vars(Progress)
    /\ WF_vars(\E i \in Workers : MemoryWake(i))

FairSpec == Spec /\ Fairness

\* ================================================================== claims

\* C1: under every interleaving of check_quota, consume_quota and
\* wait_until_available calls of the workers, and of the clock, used_quota
\* is at most daily_limit.
C1_UsedWithinLimit == used_quota <= daily_limit

\* the limit is used up to the last unit and a further consume_quota call,
\* made while another worker sleeps in wait_until_available, was refused
C1_Witness ==
    /\ used_quota = daily_limit
    /\ daily_limit > 0
    /\ sr_ok >= 1
    /\ sr_n > sr_ok
    /\ ~qlast
    /\ \E w \in QWorkers : qpc[w] = "sleeping"

\* the cost that a call consume_quota(o, c) asks for: c when a cost is
\* given, else the table's cost of the operation
RequestedCost(o, c) == IF c # << >> THEN c[1] ELSE QUOTA_COSTS(o)

\* what one consume_quota(o, c) step must do, for cost k; used is taken
\* after the reset that is due
ConsumeStepFor(o, k) ==
    LET u == IF now >= reset_time THEN 0 ELSE used_quota
        h == IF now >= reset_time THEN [x \in OpInputs |-> 0]
                                  ELSE operation_history
    IN  /\ (qlast' = FALSE) <=> (u + k > daily_limit)
        /\ ~qlast' => used_quota' = u /\ operation_history' = h
        /\ qlast' => /\ used_quota' = u + k
                     /\ operation_history' = [h EXCEPT ![o] = @ + 1]

C2_ConsumeStep ==
    \A w \in QWorkers, o \in OpInputs, c \in CostInputs :
        ConsumeQuota(w, o, c) => ConsumeStepFor(o, RequestedCost(o, c))

\* with daily_limit = 100, of consecutive requests of cost 30 since the last
\* reset exactly the first 3 succeed
C2_Scenario ==
    (daily_limit = 100 /\ sr_costs = {30}) => sr_ok = Min(sr_n, 3)

\* C2: consume_quota(op, cost) returns false exactly when
\* used + cost > daily_limit; a refused call debits nothing and leaves the
\* histogram alone, a granted call adds exactly cost to used_quota and one
\* to the histogram entry of the operation; hence limit 100 admits exactly
\* the first 3 of the requests of cost 30.
C2_ConsumeExact == [][C2_ConsumeStep]_vars /\ []C2_Scenario

\* the same with the cost that the code charges (a given cost of 0 is
\* replaced by the table's cost): this much holds
C2_ChargedStep ==
    \A w \in QWorkers, o \in OpInputs, c \in CostInputs :
        ConsumeQuota(w, o, c) => ConsumeStepFor(o, OperationCost(o, c))
C2_ChargedExact == [][C2_ChargedStep]_vars /\ []C2_Scenario

\* five requests of cost 30 against limit 100: three granted, the fifth refused
C2_Witness ==
    /\ daily_limit = 100
    /\ sr_costs = {30}
    /\ sr_n = 5
    /\ sr_ok = 3
    /\ used_quota = 90
    /\ qlast = FALSE


\* the channel tasks inside the channel semaphore, the channels in
\* processing, the video tasks inside the video semaphore
ActiveWorkers == {i \in Workers : wpc[i] \in ActivePc}
ProcessingChannels ==
    {c \in DOMAIN channel_progress : channel_progress[c].status = "processing"}
VideosInFlight ==
    UNION {{<<i, k>> : k \in {j \in DOMAIN vpc[i] : vpc[i][j] \in InFlight}} :
              i \in DOMAIN vpc}

\* C3: every invocation of the content fetch is preceded by a consume_quota
\* call for it that returned true: there are never more fetches than
\* granted consume_quota calls.
C3_FetchBehindQuota == fetches <= sr_ok

\* C4: at every moment the number of channel tasks that have started and
\* not finished, and the number of channels in status processing, is at
\* most max_channels.
C4_ChannelBound ==
    /\ Cardinality(ActiveWorkers) <= max_channels
    /\ Cardinality(ProcessingChannels) <= max_channels

\* max_channels channels are being processed and another task waits
C4_Witness ==
    /\ Cardinality(ActiveWorkers) = max_channels
    /\ Cardinality(ProcessingChannels) = max_channels
    /\ \E i \in Workers : wpc[i] = "spawned"

\* C5: at every moment the number of video fetches in flight, summed over
\* all channels, is at most concurrent_limit.
C5_VideoBound == Cardinality(VideosInFlight) <= concurrent_limit

\* a video of one channel holds the last slot while a video of another
\* channel waits for it
C5_Witness ==
    /\ Cardinality(VideosInFlight) = concurrent_limit
    /\ \E i, j \in Workers :
          /\ channel_inputs[i] # channel_inputs[j]
          /\ \E k \in DOMAIN vpc[i] : vpc[i][k] \in InFlight
          /\ \E k \in DOMAIN vpc[j] : vpc[j][k] = "waiting"

\* C6: for every channel, in every state, processed == successful + failed
\* (+ skipped, which the progress record does not count) and
\* processed <= total.
C6_Counters ==
    \A c \in DOMAIN channel_progress :
        LET p == channel_progress[c]
        IN  /\ p.processed_videos = p.successful_videos + p.failed_videos
            /\ p.processed_videos <= p.total_videos

\* C7: a channel's status moves pending -> processing -> completed,
\* partial or failed only, and a terminal status never changes again.
C7_StatusStep ==
    \A c \in DOMAIN channel_progress :
        LET old == channel_progress[c].status
            new == channel_progress'[c].status
        IN  new # old =>
               \/ old = "pending" /\ new = "processing"
               \/ old = "processing" /\ new \in TerminalStatus
C7_StatusMachine == [][C7_StatusStep]_vars

\* C8, at the return of process_channels_batch: every channel task has
\* ended, every channel has a terminal status, and a channel is failed only
\* if a task of its own raised.
C8_Returned ==
    mpc = "returned" =>
        /\ \A i \in Workers : wpc[i] \in DonePc
        /\ \A c \in DOMAIN channel_progress :
              /\ channel_progress[c].status \in TerminalStatus
              /\ channel_progress[c].status = "failed" =>
                    \E i \in Workers : channel_inputs[i] = c /\ wpc[i] = "done_exc"

\* C8, the step in which a channel task fails: no other task moves, and no
\* other channel's progress changes.
C8_FailureStep ==
    \A i \in Workers :
        (wpc[i] # "done_exc" /\ wpc'[i] = "done_exc") =>
            \A j \in Workers \ {i} :
                /\ wpc'[j] = wpc[j]
                /\ queue'[j] = queue[j]
                /\ vpc'[j] = vpc[j]
                /\ channel_inputs[j] # channel_inputs[i] =>
                      channel_progress'[channel_inputs[j]] =
                      channel_progress[channel_inputs[j]]

\* C8: the fatal failure of one channel task neither cancels nor fails the
\* task of another channel, and process_channels_batch returns its result
\* only when every channel has reached its terminal status.
C8_Isolation == []C8_Returned /\ [][C8_FailureStep]_vars

\* the call has returned; one channel failed, another one was processed
C8_Witness ==
    /\ mpc = "returned"
    /\ \E i, j \in Workers :
          /\ channel_inputs[i] # channel_inputs[j]
          /\ wpc[i] = "done_exc"
          /\ wpc[j] = "done_ok"
          /\ channel_progress[channel_inputs[i]].status = "failed"
          /\ channel_progress[channel_inputs[j]].status \in {"completed", "partial"}
          /\ channel_progress[channel_inputs[j]].processed_videos > 0

\* C9: when process_channels_batch returns, every input channel is in
\* exactly one of successful, partial and failed, and the three sizes add up
\* to total_channels.
C9_Partition ==
    mpc = "returned" =>
        LET ok == Range(batch_result.successful_channels)
            pa == batch_result.partial_channels
            fa == batch_result.failed_channels
        IN  /\ Len(batch_result.successful_channels) + Cardinality(pa)
                 + Cardinality(fa) = batch_result.total_channels
            /\ ok \cup pa \cup fa = Range(channel_inputs)
            /\ ok \cap pa = {} /\ ok \cap fa = {} /\ pa \cap fa = {}

\* C10: every run of process_channels_batch returns, with every channel task
\* ended and every input channel in a terminal status.
C10_Terminates ==
    <>(/\ mpc = "returned"
       /\ \A i \in Workers : wpc[i] \in DonePc
       /\ \A c \in DOMAIN channel_progress :
             channel_progress[c].status \in TerminalStatus)

\* the call has returned after two channels, both inside the channel
\* semaphore, had to share one video slot
C10_Witness ==
    /\ mpc = "returned"
    /\ max_channels = 2
    /\ concurrent_limit = 1
    /\ Len(channel_inputs) >= 2
    /\ \A i \in Workers : queue[i].length >= 1 /\ vpc[i][1] = "done"

\* the channels whose task the interrupt cancelled before it had finished
UnfinishedInRun ==
    {c \in Range(channel_inputs) :
        \E i \in DOMAIN fpc : channel_inputs[i] = c /\ fpc[i] = "cancelled"}

\* the step is a call of process_channels that makes no task for the
\* channels of the set, and a task for every other input
SkipsExactly(listed) ==
    ProcessFallback =>
        \A i \in 1..Len(channel_inputs) :
            fpc'[i] = "skipped" <=> channel_inputs[i] \in listed

\* C11: a channel that the progress store lists in processed_channels is
\* skipped by the next call of process_channels, which makes no task for
\* it, and a channel that the store does not list is processed.
C11_Resume ==
    [][SkipsExactly(progress_file.processed_channels)]_vars

\* what holds: the call skips the channels of _processed_channels, which
\* only a call of _load_progress fills
C11_SkipsInMemory ==
    [][SkipsExactly(o_processed)]_vars

\* a call of process_channels was given a channel that the progress file
\* lists as processed, and made a task for it
C11_Witness ==
    /\ opc = "fallback"
    /\ o_calls = 1
    /\ \E i \in DOMAIN fpc :
          /\ channel_inputs[i] \in progress_file.processed_channels
          /\ fpc[i] # "skipped"

\* the channels that the run has brought to status completed. A channel
\* gets there in MultiChannelProcessor only: every channel of the
\* orchestrator's own tasks fails (FallbackReturn). process_channels_batch
\* reads and writes neither _processed_channels nor the progress file, which
\* stay as they were.
CompletedChannels ==
    {c \in DOMAIN channel_progress : channel_progress[c].status = "completed"}

\* C12: once a channel has reached status completed in a run, it is in
\* processed_channels, and when the run has returned the progress store on
\* disk lists it.
C12_Checkpoint ==
    /\ CompletedChannels \subseteq o_processed
    /\ mpc = "returned" => CompletedChannels \subseteq progress_file.processed_channels

\* process_channels_batch has returned with a channel completed, videos
\* and all, and there is no progress file
C12_Witness ==
    /\ mpc = "returned"
    /\ progress_file = NoFile
    /\ \E c \in CompletedChannels : channel_progress[c].processed_videos >= 1

\* no channel is given twice
NoDuplicateInputs ==
    \A i, j \in 1..Len(channel_inputs) : channel_inputs[i] = channel_inputs[j] => i = j

\* the flush before the re-raise: with save_progress, the progress has
\* been saved (or the save was tried) when the interrupt reaches the caller
C13_FlushFirst ==
    (opc = "raised" /\ save_progress) => flushed # "no"

\* no channel whose task had not finished is in _processed_channels
C13_NotListed ==
    opc = "raised" => UnfinishedInRun \cap o_processed = {}

\* C13: when an interrupt arrives while channels are processed, the
\* progress is flushed before the interrupt is re-raised to the caller, and
\* no channel whose task had not finished is listed in processed_channels.
C13_Interrupt ==
    /\ C13_FlushFirst
    /\ C13_NotListed

\* the interrupt has reached the caller with a task cancelled and no save
C13_Witness ==
    /\ opc = "raised"
    /\ save_progress
    /\ flushed = "no"
    /\ UnfinishedInRun # {}

\* the progress file is the one that the orchestrator was constructed
\* with: process_channels was not called and cleanup has not saved
FirstFile == o_calls = 0 /\ flushed = "no"

\* C14: after a load that failed, no channel is marked processed and no
\* channel progress is restored: there is no partially loaded state.
C14_FailedLoadEmpty ==
    (load_failed /\ FirstFile) =>
        o_processed = {} /\ o_progress = << >> /\ resumed = {}

\* what holds: a file that is not JSON at all gives empty progress
C14_GarbledEmpty ==
    (load_failed /\ FirstFile /\ progress_file.kind = "garbled") =>
        o_processed = {} /\ o_progress = << >> /\ resumed = {}

\* a load failed at a record, after processed_channels was assigned
C14_Witness ==
    /\ load_failed
    /\ FirstFile
    /\ progress_file.kind = "json"
    /\ o_processed # {}

\* whether the step of a call that begins rejects it: func is not invoked
\* and the caller is back at once
Rejected(w) == cb_invoked' = cb_invoked /\ cb_pc'[w] = "idle"

\* the seconds since the last failure
SinceFailure == cb_now - cb_last_failure_time

C15_RejectStep ==
    \A w \in CBCallers :
        CallBegin(w) =>
            /\ Rejected(w) => /\ cb_state = "open"
                              /\ SinceFailure <= cb_timeout
                              /\ cb_state' = cb_state
                              /\ cb_failure_count' = cb_failure_count
            /\ (cb_state = "open" /\ SinceFailure < cb_timeout) => Rejected(w)
            /\ cb_state \in {"closed", "half_open"} => ~Rejected(w)
            /\ ~Rejected(w) => cb_invoked' = cb_invoked + 1 /\ cb_pc'[w] = "running"

\* C15: a call is rejected, without an invocation of the operation, only
\* when the breaker is open and the recovery timeout is not over, and
\* always when it is open and the timeout has not been reached; in closed
\* and half_open every call invokes the operation; a rejected call leaves
\* state and failure_count as they were.
C15_RejectsOnlyOpen == [][C15_RejectStep]_vars

\* a call was rejected; later the timeout was over and a call is running
\* that was admitted in half_open
C15_Witness ==
    /\ cb_rejected >= 1
    /\ cb_state = "half_open"
    /\ \E w \in CBCallers : cb_pc[w] = "running"

C16_Step ==
    \A w \in CBCallers :
        /\ (CallEnd(w, "fail") /\ cb_streak >= 0 /\ cb_streak + 1 >= cb_threshold)
              => cb_state' = "open"
        /\ (CallBegin(w) /\ cb_streak >= cb_threshold /\ SinceFailure < cb_timeout)
              => /\ Rejected(w)
                 /\ cb_rejected' = cb_rejected + 1

\* C16: counted from a closed breaker with failure_count 0, the failed call
\* that makes threshold failures in a row leaves the breaker open, and a
\* call begun after that within recovery_timeout of the last failure is
\* rejected without an invocation of the operation.
C16_OpensAtThreshold == [][C16_Step]_vars

\* threshold 3: three failures in a row, three invocations, open, and the
\* fourth call rejected
C16_Witness ==
    /\ cb_threshold = 3
    /\ cb_streak = 3
    /\ cb_invoked = 3
    /\ cb_state = "open"
    /\ cb_rejected = 1
    /\ cb_ncalls = 4

\* the transitions of the breaker by the state in which a call ends: a
\* call begun in open after recovery_timeout is admitted and moves the
\* breaker to half_open; a call that ends with a result while the breaker
\* is half_open closes it and resets failure_count; one that ends with a
\* failure while it is half_open opens it
C17_Step ==
    \A w \in CBCallers :
        /\ (CallBegin(w) /\ cb_state = "open" /\ SinceFailure > cb_timeout)
              => /\ cb_state' = "half_open"
                 /\ ~Rejected(w)
        /\ (CallEnd(w, "ok") /\ cb_state = "half_open")
              => cb_state' = "closed" /\ cb_failure_count' = 0
        /\ (CallEnd(w, "fail") /\ cb_state = "half_open")
              => cb_state' = "open"
C17_ByState == [][C17_Step]_vars

\* the call that was admitted after the timeout, the one that half-opened
\* the breaker, ends with a result, or with a failure
ProbeEnds(w, outcome) == cb_probe[w] /\ CallEnd(w, outcome)

\* C17: after recovery_timeout has elapsed in open, the next call is
\* admitted in half_open; if that call succeeds the breaker becomes closed
\* with failure_count 0, and if it fails the breaker becomes open again.
C17_HalfOpen ==
    [][\A w \in CBCallers :
          /\ (CallBegin(w) /\ cb_state = "open" /\ SinceFailure > cb_timeout)
                => cb_state' = "half_open" /\ ~Rejected(w)
          /\ ProbeEnds(w, "ok") => cb_state' = "closed" /\ cb_failure_count' = 0
          /\ ProbeEnds(w, "fail") => cb_state' = "open"]_vars

\* the call that half-opened the breaker is still running and the breaker
\* is no longer half_open: another call, admitted after it, has ended
C17_Witness ==
    \E w \in CBCallers :
        /\ cb_probe[w]
        /\ cb_pc[w] = "running"
        /\ cb_state # "half_open"

\* every invocation so far raised an exception that execute retries
AllFailed == \A j \in DOMAIN rt_outcomes : rt_outcomes[j] = "fail"

\* C18: with max_attempts = n >= 1, func is never invoked more than n
\* times; when execute returns, func failed k < n times, its invocation
\* k+1 succeeded and was the last, and the value of that invocation is
\* returned; when func has only failed, execute goes on until invocation n
\* and then raises the error of invocation n itself.
C18_Retry ==
    rt_max >= 1 =>
        /\ rt_invoked = Len(rt_outcomes)
        /\ rt_invoked <= rt_max
        /\ rt_pc = "returned" =>
              LET k == rt_invoked - 1 IN
              /\ k >= 0 /\ k < rt_max
              /\ \A j \in 1..k : rt_outcomes[j] = "fail"
              /\ rt_outcomes[k + 1] = "ok"
              /\ rt_result = [kind |-> "value", at |-> k + 1]
        /\ (rt_pc = "raised" /\ AllFailed) =>
              /\ rt_invoked = rt_max
              /\ rt_result = [kind |-> "error", at |-> rt_max]
        /\ (rt_pc \in {"calling", "sleeping"}) => AllFailed /\ rt_invoked < rt_max

\* max_attempts 3: two failures, two sleeps, then the third invocation
\* succeeds and its value is returned
C18_Witness ==
    /\ rt_max = 3
    /\ rt_pc = "returned"
    /\ rt_outcomes = <<"fail", "fail", "ok">>
    /\ rt_result = [kind |-> "value", at |-> 3]
    /\ rt_slept = rt_delay + rt_delay * rt_backoff

\* max_attempts 3: three failures, the third error raised
C18_Exhausted ==
    /\ rt_max = 3
    /\ rt_pc = "raised"
    /\ rt_outcomes = <<"fail", "fail", "fail">>
    /\ rt_result = [kind |-> "error", at |-> 3]

\* the least whole number that is at least a / b
CeilDiv(a, b) == (a + b - 1) \div b

\* C19: at any time t since construction the number of calls of acquire(1)
\* that have returned is at most ceil(rate * t / per) + rate, the burst
\* capacity being the rate.
C19_RateBound ==
    rl_completed <= CeilDiv(rl_rate * rl_now, rl_per) + rl_rate

\* rate 1 per second: the first call returns at once, the second sleeps one
\* second, and a third has returned within that same second
C19_Witness ==
    /\ rl_rate = 1 /\ rl_per = 1
    /\ rl_now = 1
    /\ rl_completed = 3

\* the list positions, counted from 1, that the j-th returned batch covers
Positions(j) == (pq_batches[j].start + 1)..pq_batches[j].end

RECURSIVE Concatenated(_)
Concatenated(n) ==
    IF n = 0 THEN << >> ELSE Concatenated(n - 1) \o pq_batches[n].ids

\* C20: every returned batch is the slice of video_ids between the cursor
\* before the call and the cursor after it and has at most batch_size
\* ids; the first slice starts at position 0 and each later one where the
\* one before ended; no two batches cover a common list position; the
\* batches put together are the first current_index ids of the list.
C20_Batches ==
    /\ \A j \in DOMAIN pq_batches :
          LET b == pq_batches[j] IN
          /\ 0 <= b.start /\ b.start <= b.end /\ b.end <= Len(pq.video_ids)
          /\ b.ids = SubSeq(pq.video_ids, b.start + 1, b.end)
          /\ Len(b.ids) <= pq.batch_size
          /\ b.start = IF j = 1 THEN 0 ELSE pq_batches[j - 1].end
    /\ \A j, k \in DOMAIN pq_batches : j # k => Positions(j) \cap Positions(k) = {}
    /\ Concatenated(Len(pq_batches)) = SubSeq(pq.video_ids, 1, pq.current_index)

\* three ids, one of them twice, in batches of two: a full batch, a short
\* one, and an empty one after the end
C20_Witness ==
    /\ pq.video_ids = <<"v1", "v2", "v1">>
    /\ pq.batch_size = 2
    /\ pq_batches = <<[ids |-> <<"v1", "v2">>, start |-> 0, end |-> 2],
                      [ids |-> <<"v1">>, start |-> 2, end |-> 3],
                      [ids |-> << >>, start |-> 3, end |-> 3]>>

\* the calls of get_next_batch that a list of this queue's length takes
CallsNeeded == CeilDiv(Len(pq.video_ids), pq.batch_size)

\* C21: no call of get_next_batch moves the cursor back; the cursor never
\* exceeds the length of the list; it is at the length of the list exactly
\* when ceil(len / batch_size) calls or more have been made, and is_complete
\* holds exactly then; every call after that returned an empty batch and
\* left the cursor where it was.
C21_Cursor ==
    /\ \A j \in DOMAIN pq_batches : pq_batches[j].start <= pq_batches[j].end
    /\ pq.current_index <= Len(pq.video_ids)
    /\ Len(pq_batches) = pq_ncalls
    /\ (pq.current_index = Len(pq.video_ids)) <=> (pq_ncalls >= CallsNeeded)
    /\ queue_is_complete(pq) <=> (pq_ncalls >= CallsNeeded)
    /\ \A j \in DOMAIN pq_batches :
          j > CallsNeeded =>
              /\ pq_batches[j].ids = << >>
              /\ pq_batches[j].end = pq_batches[j].start
              /\ pq_batches[j].start = Len(pq.video_ids)

\* three ids in batches of one: three calls reach the end, the fourth
\* returns nothing
C21_Witness ==
    /\ Len(pq.video_ids) = 3
    /\ pq.batch_size = 1
    /\ pq_ncalls = 4
    /\ pq.current_index = 3
    /\ pq_batches[3].ids # << >>
    /\ pq_batches[4].ids = << >>

\* the categories that are not to be tried again
NotRetried == {"quota_exceeded", "not_found", "permission", "transcript_unavailable"}

\* C22: when the transcript API has failed for an item with quota_exceeded,
\* not_found, permission or transcript_unavailable, it has been invoked
\* exactly once for that item: it is not invoked again in the run.
C22_Routing ==
    (ft_category \in NotRetried /\ ft_api_failures >= 1) => ft_api_calls = 1

\* a quota_exceeded item: the API was invoked four times and raised four
\* times before the fetch ended without a transcript
C22_Witness ==
    /\ ft_category = "quota_exceeded"
    /\ ft_api_calls = 4
    /\ ft_api_failures = 4
    /\ ft_pc = "done"
    /\ ft_result = "none"

\* the step that ends worker i's channel with its queue complete
QueueCompleteStep(i) ==
    /\ wpc[i] = "queue_loop"
    /\ is_complete(queue[i])
    /\ \E memory_ok \in BOOLEAN : QueueLoop(i, memory_ok)

\* a step of worker i in which one of its videos ends, well or not
ItemStep(i) ==
    \E k \in DOMAIN vpc[i] :
        \/ \E t \in BOOLEAN : FetchReturn(i, k, t)
        \/ \E r \in BOOLEAN : ExportReturn(i, k, r)

C23_Step ==
    \A i \in Workers :
        LET c == channel_inputs[i] IN
        /\ QueueCompleteStep(i) =>
              /\ channel_progress'[c].failed_videos = channel_progress[c].failed_videos
              /\ (channel_progress'[c].status = "completed")
                    <=> (channel_progress[c].failed_videos = 0)
              /\ (channel_progress'[c].status = "partial")
                    <=> (channel_progress[c].failed_videos >= 1)
              /\ wpc'[i] = "done_ok"
        /\ ItemStep(i) =>
              /\ \A d \in DOMAIN channel_progress :
                    channel_progress'[d].status = channel_progress[d].status
              /\ wpc'[i] = wpc[i]
              /\ batch_result' = batch_result

\* C23: the step that ends a channel whose queue is complete marks it
\* completed exactly when its failed count is zero and partial exactly when
\* the count is at least one; the step in which a video ends, failed or
\* not, changes no channel's status and ends no channel task.
C23_FinalStatus == [][C23_Step]_vars

\* a channel whose one video failed has ended as partial
C23_Witness ==
    \E i \in Workers :
        /\ wpc[i] = "done_ok"
        /\ channel_progress[channel_inputs[i]].failed_videos >= 1
        /\ channel_progress[channel_inputs[i]].status = "partial"
        /\ channel_inputs[i] \in batch_result.partial_channels

\* worker i's channel task ended in the except branch before any queue
\* was made: get_channel_by_input returned None or raised, or
\* get_channel_videos raised
FailedResolving(i) == wpc[i] = "done_exc" /\ vpc[i] = << >>

\* the step in which resolving worker i's channel fails
ResolveFailStep(i) ==
    \/ \E r \in {"none", "raise"} : GetChannelReturn(i, r)
    \/ \E n \in 0..list_limit : GetVideosReturn(i, TRUE, n)

\* what holds of worker i's own task once resolving its channel has failed
C24_Task(i) ==
    FailedResolving(i) =>
        /\ queue[i] = NewQueue(0)
        /\ \A k \in DOMAIN vpc[i] : vpc[i][k] \notin InFlight \cup VideoDone
        /\ channel_progress[channel_inputs[i]].error_message = "recorded"
        /\ channel_inputs[i] \in batch_result.failed_channels

\* what holds of the channel of worker i once resolving it has failed
C24_Channel(i) ==
    FailedResolving(i) =>
        /\ channel_progress[channel_inputs[i]].processed_videos = 0
        /\ mpc = "returned" => channel_progress[channel_inputs[i]].status = "failed"

\* C24: once resolving a channel has raised or found nothing, the channel
\* has its error message recorded and is listed as failed, its task has
\* made no queue and started no video, its processed count is 0, and when
\* the batch returns its status is failed.
C24_ResolveFailure ==
    \A i \in Workers : C24_Task(i) /\ C24_Channel(i)

\* the same for batches that name no channel twice
C24_NoDuplicates ==
    NoDuplicateInputs => C24_ResolveFailure

\* the part that is about the failing task alone
C24_TaskAlone == \A i \in Workers : C24_Task(i)

\* the batch has returned; a channel whose video list could not be fetched
\* is failed, another one was processed
C24_Witness ==
    /\ mpc = "returned"
    /\ \E i, j \in Workers :
          /\ FailedResolving(i)
          /\ channel_progress[channel_inputs[i]].status = "failed"
          /\ channel_progress[channel_inputs[i]].processed_videos = 0
          /\ wpc[j] = "done_ok"
          /\ channel_progress[channel_inputs[j]].processed_videos >= 1

\* the step in which channel task i, given a list of n videos, applies
\* the predicates of filter_videos to it
FilterStep(i, n) == wpc[i] = "get_videos" /\ GetVideosReturn(i, FALSE, n)

\* filter_videos with a skip setting on fails the channel on any list that
\* is not empty, before a video is marked: nothing of it is queued or
\* fetched
FilterFailsChannel ==
    [][\A i \in Workers, n \in 1..list_limit :
          (FilterStep(i, n) /\ skip_checks) =>
              /\ wpc'[i] = "done_exc"
              /\ vpc'[i] = << >>
              /\ fetches' = fetches]_vars

\* with neither skip_private_videos nor skip_live_streams the list is kept
\* whole and every video of it is queued
NoChecksKeepsList ==
    [][\A i \in Workers, n \in 1..list_limit :
          (FilterStep(i, n) /\ ~skip_checks) =>
              wpc'[i] = "queue_loop" /\ Len(vpc'[i]) = n]_vars

\* filter_videos raised on a list: the channel has failed with no video
\* queued and nothing fetched for it
FilterRaised ==
    \E i \in Workers :
        /\ skip_checks
        /\ filter_raised[i]
        /\ wpc[i] = "done_exc"
        /\ vpc[i] = << >>
        /\ channel_progress[channel_inputs[i]].status = "failed"

\* the step in which the export of video k of worker i raises
ExportFailStep(i, k) == vpc[i][k] = "exporting" /\ ExportReturn(i, k, TRUE)

\* the channel task goes on when the export of one of its videos fails
C26_GoesOnStep ==
    \A i \in Workers : \A k \in DOMAIN vpc[i] :
        ExportFailStep(i, k) =>
            /\ wpc'[i] = wpc[i]
            /\ \A d \in DOMAIN channel_progress :
                  channel_progress'[d].status = channel_progress[d].status
            /\ \A j \in DOMAIN vpc[i] : j # k => vpc'[i][j] = vpc[i][j]
            /\ queue' = queue

C26_Step ==
    /\ C26_GoesOnStep
    /\ \A i \in Workers : \A k \in DOMAIN vpc[i] :
          ExportFailStep(i, k) => vpc'[i][k] = "done"

\* C26: when export_transcript raises for a video, the video's task ends
\* by returning, no exception leaving it; the channel task goes on as it
\* was, no status changes, and the other videos of the channel are left as
\* they were.
C26_ExportContained == [][C26_Step]_vars

\* the part about the channel: it is not aborted and its other videos are
\* not touched
C26_ChannelGoesOn == [][C26_GoesOnStep]_vars

\* a video whose transcript was fetched and whose export raised: its task
\* raised, it counts as failed, and the channel ended partial
C26_Witness ==
    \E i \in Workers :
        /\ wpc[i] = "done_ok"
        /\ vpc[i] = <<"raised">>
        /\ channel_progress[channel_inputs[i]].failed_videos >= 1
        /\ channel_progress[channel_inputs[i]].status = "partial"

\* a step in which the property state is read: by itself, or by async_call
StateReadStep == ReadState \/ \E w \in CBCallers : CallBegin(w)

C27_Step ==
    /\ (cb_state = "open" /\ cb_state' # "open") =>
          /\ StateReadStep
          /\ SinceFailure > cb_timeout
          /\ cb_state' = "half_open"
    /\ (cb_state = "open" /\ StateReadStep /\ SinceFailure <= cb_timeout) =>
          cb_state' = "open"
    /\ (cb_state = "open" /\ StateReadStep /\ SinceFailure > cb_timeout) =>
          cb_state' = "half_open"
    /\ CbTick => cb_state' = cb_state

\* C27: the stored state leaves open only in a step that reads the state
\* more than recovery_timeout after the last failure, and then becomes
\* half_open; a read at or before the timeout leaves it open; the passing
\* of time alone changes nothing.
C27_LazyHalfOpen == [][C27_Step]_vars

\* the breaker opened and a plain read of state, with no call made since,
\* found the timeout over
C27_Witness ==
    /\ cb_state = "half_open"
    /\ \A w \in CBCallers : cb_pc[w] = "idle"
    /\ cb_rejected = 0
    /\ cb_invoked = cb_failure_count
    /\ cb_ncalls = cb_invoked
    /\ SinceFailure > cb_timeout

\* C28: the sleep that follows the failed attempt number i, counted from
\* 0, lasts delay * backoff^i; a sleep is begun only after a failed attempt
\* that is not the last one allowed; when execute has ended, by a value or
\* by an error, it has slept once less than it has invoked func.
C28_Backoff ==
    rt_max >= 1 =>
        /\ \A j \in DOMAIN rt_sleeps :
              /\ rt_sleeps[j] = rt_delay * Pow(rt_backoff, j - 1)
              /\ rt_outcomes[j] = "fail"
              /\ j - 1 < rt_max - 1
        /\ rt_pc \in {"returned", "raised"} => Len(rt_sleeps) = rt_invoked - 1
        /\ rt_pc = "sleeping" => Len(rt_sleeps) = rt_invoked /\ rt_invoked < rt_max
        /\ rt_pc = "calling" => Len(rt_sleeps) = rt_invoked

\* delay 2, backoff 2, max_attempts 4: four failures, sleeps of 2, 4 and 8
\* seconds, none after the fourth
C28_Witness ==
    /\ rt_max = 4 /\ rt_delay = 2 /\ rt_backoff = 2
    /\ rt_pc = "raised"
    /\ rt_invoked = 4
    /\ rt_sleeps = <<2, 4, 8>>
    /\ rt_slept = 14

\* a step that is one call of check_quota
CheckQuotaStep ==
    \E w \in QWorkers, o \in OpInputs, c \in CostInputs : CheckQuota(w, o, c)

\* the three fields are as they were
TrackerUntouched ==
    /\ used_quota' = used_quota
    /\ operation_history' = operation_history
    /\ reset_time' = reset_time

\* C29: a call of check_quota leaves used_quota, operation_history and
\* reset_time unchanged, in every state and for every argument.
C29_CheckReadOnly == [][CheckQuotaStep => TrackerUntouched]_vars

\* the same for the calls made before the reset time: this much holds
C29_ReadOnlyBeforeReset ==
    [][(CheckQuotaStep /\ ~ResetDue) => TrackerUntouched]_vars

\* quota was consumed, the reset time passed, and the one call of
\* check_quota has cleared the counters and moved the reset time
C29_Witness ==
    /\ ncalls >= 1
    /\ nreads = 1
    /\ sr_n = 0
    /\ used_quota = 0
    /\ operation_history = EmptyHistory
    /\ reset_time > NextResetTime(0)

\* a step of a quota call: check_quota, consume_quota or one poll of
\* wait_until_available
QuotaCallStep ==
    \/ CheckQuotaStep
    \/ \E w \in QWorkers, o \in OpInputs, c \in CostInputs : ConsumeQuota(w, o, c)
    \/ \E w \in QWorkers, o \in OpInputs, c \in CostInputs : WaitUntilAvailable(w, o, c)
    \/ \E w \in QWorkers : WaitWake(w)

\* counter and histogram as a tracker that was cleared and then served the
\* call: both empty, or exactly the one operation that was just granted
ClearedTogether ==
    \/ used_quota' = 0 /\ operation_history' = EmptyHistory
    \/ \E o \in OpInputs, c \in CostInputs :
          /\ used_quota' = OperationCost(o, c)
          /\ operation_history' = [EmptyHistory EXCEPT ![o] = 1]

\* t is a midnight Pacific
OnBoundary(t) == (t - PacificOffset) % DayLength = 0

\* the reset time moved to the first boundary after the clock
MovedToNextBoundary ==
    /\ reset_time' > reset_time
    /\ reset_time' > now
    /\ reset_time' - now <= DayLength
    /\ OnBoundary(reset_time')

C30_Step ==
    /\ (QuotaCallStep /\ ResetDue) => (ClearedTogether /\ MovedToNextBoundary)
    /\ (reset_time' # reset_time) => (QuotaCallStep /\ ResetDue)
    /\ ~ResetDue =>
          /\ used_quota' >= used_quota
          /\ \A o \in OpInputs : operation_history'[o] >= operation_history[o]

\* C30: a quota call that finds the reset time passed clears used_quota and
\* operation_history and moves reset_time to the next boundary after the
\* clock, all in its one step; nothing else moves reset_time or lowers the
\* counters, so one crossing of the boundary gives one reset.
C30_ResetOnce == [][C30_Step]_vars

\* in every state the counter and the histogram are empty together, and the
\* reset time is a boundary
C30_NeverHalfReset ==
    /\ (used_quota = 0) <=> (operation_history = EmptyHistory)
    /\ OnBoundary(reset_time)

\* quota was consumed before the boundary, the clock crossed it, one call
\* reset the tracker and later calls in the new period consumed again
\* without a second reset
C30_Witness ==
    /\ nticks >= 1
    /\ now >= NextResetTime(0)
    /\ reset_time > now
    /\ sr_n >= 2
    /\ ncalls > sr_n
    /\ used_quota > 0

\* a step in which wait_until_available polls for worker w: its first
\* check_quota or one after a sleep
PollStep(w) ==
    \/ \E o \in OpInputs, c \in CostInputs : WaitUntilAvailable(w, o, c)
    \/ WaitWake(w)

\* the cost worker w polls for after a sleep is within the daily limit and
\* the reset time it read before the sleep has come
PollAfterReset(w) ==
    /\ WaitWake(w)
    /\ qwait[w].cost <= daily_limit
    /\ now >= qwait[w].reset

\* C31: wait_until_available, asked for a cost within the daily limit,
\* sleeps at most 300 seconds at a time, returns at the latest from the
\* first poll after the period has reset, and returns only when check_quota
\* for that cost is true.
C31_Step ==
    \A w \in QWorkers :
        /\ (PollStep(w) /\ qpc'[w] = "sleeping") =>
              /\ qwait'[w].wake > now
              /\ qwait'[w].wake - now <= MaxPollWait
        /\ (PollStep(w) /\ qpc'[w] = "idle") =>
              /\ reset_time' > now'
              /\ used_quota' + qwait'[w].admitted <= daily_limit
        /\ PollAfterReset(w) => qpc'[w] = "idle"
C31_WaitReturns == [][C31_Step]_vars

\* what holds of C31: the sleeps are bounded, the call returns only when
\* check_quota is true, and the first poll after the reset returns when
\* consume_quota was not called in the new period before it
C31_StepAlone ==
    \A w \in QWorkers :
        /\ (PollStep(w) /\ qpc'[w] = "sleeping") =>
              /\ qwait'[w].wake > now
              /\ qwait'[w].wake - now <= MaxPollWait
        /\ (PollStep(w) /\ qpc'[w] = "idle") =>
              /\ reset_time' > now'
              /\ used_quota' + qwait'[w].admitted <= daily_limit
        /\ (PollAfterReset(w) /\ (ResetDue \/ sr_n = 0)) => qpc'[w] = "idle"
C31_WaitReturnsAlone == [][C31_StepAlone]_vars

\* the new period has begun and what is left of its quota does not cover
\* the cost worker w waits for
Starved(w) ==
    /\ reset_time > NextResetTime(0)
    /\ used_quota + qwait[w].cost > daily_limit

\* a sleeping caller whose cost is within the daily limit returns, unless
\* the other workers have taken the quota of the new period before its poll
C31_ReturnsUnlessStarved ==
    \A w \in QWorkers :
        (qpc[w] = "sleeping" /\ qwait[w].cost <= daily_limit)
            ~> (qpc[w] = "idle" \/ Starved(w))

\* a caller slept through the reset, another worker consumed in the new
\* period before its poll, and the poll put it to sleep again
C31_Witness ==
    \E w \in QWorkers :
        /\ qpc[w] = "sleeping"
        /\ qwait[w].cost <= daily_limit
        /\ qwait[w].reset > NextResetTime(0)
        /\ sr_n >= 1

\* the number of the batch that holds list position k (from 0)
BatchIndex(k) == (k - 1) \div batch_size

\* the video task of position k of channel task i has begun its fetch
FetchStarted(i, k) == vpc[i][k] \in InFlight \cup VideoDone

\* a turn of the queue loop of channel task i hands out a batch: the next
\* batch_size positions of the list, or what is left of it
HandsOutNext(i) ==
    LET handed == {k \in DOMAIN vpc[i] : vpc[i][k] = "queued" /\ vpc'[i][k] # "queued"}
        first == queue[i].current_index + 1
        last == Min(queue[i].current_index + batch_size, Len(vpc[i]))
    IN  handed # {} => handed = first..last

\* C32: the videos of a channel are handed out in list order, batch by
\* batch; no video of a batch begins its fetch before every video of the
\* batches before it has been counted in the channel's progress.
C32_Order ==
    \A i \in Workers :
        /\ \A k \in DOMAIN vpc[i] :
              (vpc[i][k] # "queued") <=> (k <= queue[i].current_index)
        /\ \A j, k \in DOMAIN vpc[i] :
              (BatchIndex(j) < BatchIndex(k) /\ FetchStarted(i, k)) =>
                  vpc[i][j] \in VideoDone
        /\ channel_progress[channel_inputs[i]].processed_videos =
              Cardinality({k \in DOMAIN vpc[i] : vpc[i][k] \in VideoDone})

\* each batch is the next slice of the list
C32_Slices == [][\A i \in Workers : i \in DOMAIN vpc' => HandsOutNext(i)]_vars

\* in a list of three handed out two at a time, the second video was
\* counted before the first, and the third is being fetched with both
\* videos of the first batch counted
C32_Witness ==
    \E i \in Workers :
        /\ batch_size = 2
        /\ Len(vpc[i]) = 3
        /\ vpc[i][1] \in VideoDone
        /\ vpc[i][2] \in VideoDone
        /\ vpc[i][3] = "fetching"
        /\ channel_progress[channel_inputs[i]].processed_videos = 2

\* the exception matches no pattern of ERROR_PATTERNS and is of none of
\* the types that categorize_error knows
Unmatched(error) ==
    /\ error.matches = {}
    /\ error.type \notin {"TimeoutError", "PermissionError"}

\* C33: an exception that matches no pattern and no known type is
\* categorized as unknown, and the strategy of the unknown category does
\* not retry.
C33_UnknownDefault ==
    (eh_pc = "decided" /\ Unmatched(eh_error)) =>
        /\ eh_category = "Unknown Error"
        /\ ~eh_strategy.retry

\* the first half: such an exception is categorized as unknown, and only
\* such an exception is
C33_UnknownCategory ==
    eh_pc # "raised" => (eh_category = "Unknown Error" <=> Unmatched(eh_error))

\* an unmatched exception has been categorized and given its strategy
C33_Witness ==
    /\ eh_pc = "decided"
    /\ Unmatched(eh_error)
    /\ eh_category = "Unknown Error"

\* the channel tasks that were given channel c and have begun their work
TasksBegun(c) == {i \in Workers : channel_inputs[i] = c /\ wpc[i] # "spawned"}

\* how many times channel c is entered in the batch result
TimesCounted(c) ==
    Cardinality({n \in DOMAIN batch_result.successful_channels :
                    batch_result.successful_channels[n] = c})
    + (IF c \in batch_result.failed_channels THEN 1 ELSE 0)
    + (IF c \in batch_result.partial_channels THEN 1 ELSE 0)

\* C34: a channel that is in the input list more than once is processed
\* by one channel task only and is entered once in the batch result.
C34_Deduplicated ==
    \A c \in Range(channel_inputs) :
        /\ Cardinality(TasksBegun(c)) <= 1
        /\ TimesCounted(c) <= 1

\* without a channel given twice, each channel has one task and one entry
C34_DistinctInputs ==
    (\A i, j \in Workers : channel_inputs[i] = channel_inputs[j] => i = j) =>
        C34_Deduplicated

\* the call has returned for a list that names one channel twice
C34_Witness ==
    /\ mpc = "returned"
    /\ \E i, j \in Workers : i # j /\ channel_inputs[i] = channel_inputs[j]

\* C35: a closed breaker holds a failure count below its threshold.
C35_ClosedBelowThreshold ==
    cb_state = "closed" => cb_failure_count < cb_threshold

\* threshold 3: two failures counted and the breaker still closed
C35_Witness ==
    /\ cb_threshold = 3
    /\ cb_state = "closed"
    /\ cb_failure_count = 2

\* C36: while the breaker is closed, failure_count is the number of calls
\* that failed since the last call that succeeded, and the breaker opens
\* only when threshold calls in a row have failed.
C36_Consecutive ==
    /\ [](cb_state = "closed" => cb_failure_count = cb_run)
    /\ [][(cb_state = "closed" /\ cb_state' = "open") => cb_run' >= cb_threshold]_vars

\* threshold 3: the breaker has opened at its third failure although a call
\* succeeded after the first
C36_Witness ==
    /\ cb_threshold = 3
    /\ cb_state = "open"
    /\ cb_failure_count = 3
    /\ cb_run = 2

\* a step that closes the breaker
Closes == cb_state # "closed" /\ cb_state' = "closed"

\* C37: the breaker is closed again only by the success of a call that was
\* let through while the breaker was half_open; the success of a call let
\* through earlier, while the breaker was closed, does not close it.
C37_ClosedByProbe ==
    [][Closes => \E w \in CBCallers :
                    CallEnd(w, "ok") /\ cb_admit[w] = "half_open"]_vars

\* what holds: the breaker is closed only by a call that succeeds while
\* the breaker is half_open, whenever that call was let through
C37_ClosedBySuccess ==
    [][Closes => \E w \in CBCallers :
                    CallEnd(w, "ok") /\ cb_state = "half_open"]_vars

\* a call let through while the breaker was closed has ended, and the
\* breaker, which had opened and rejected a call since, is closed with no
\* call running
C37_Witness ==
    /\ cb_state = "closed"
    /\ cb_failure_count = 0
    /\ cb_rejected >= 1
    /\ cb_invoked = cb_threshold + 1
    /\ \A w \in CBCallers : cb_pc[w] = "idle"

\* the oldest request has left the window
OldestLeft ==
    sw_requests # << >> /\ Head(sw_requests) <= sw_now - sw_window

\* C38: every call of acquire returns: a caller that found the window full
\* is granted its request once the oldest request has left the window, and
\* the callers that come after it are granted theirs.
C38_AcquireTerminates ==
    \A w \in SWCallers : (sw_pc[w] # "idle") ~> (sw_pc[w] = "idle")

\* what holds: the window never holds more than max_requests requests
C38_WindowBound ==
    Len(DropExpired(sw_requests, sw_now)) <= sw_max

\* a caller that slept until the oldest request had left the window waits
\* for the lock that it holds itself, and another caller waits for the
\* lock behind it
C38_Witness ==
    \E w, u \in SWCallers :
        /\ sw_pc[w] = "relocking"
        /\ sw_lock = w
        /\ OldestLeft
        /\ sw_pc[u] = "locking"

\* a step in which worker w calls consume_quota for the cost that its
\* wait_until_available was let through for, as its next call after it
ConsumeAfterWait(w) ==
    \E o \in OpInputs, c \in CostInputs :
        /\ ConsumeQuota(w, o, c)
        /\ qwait[w].admitted # 0
        /\ OperationCost(o, c) = qwait[w].admitted

\* C39: when wait_until_available has returned to a worker, the next
\* consume_quota of that worker for the same cost returns true, whatever the
\* other workers did with the tracker in between.
C39_ConsumeAfterWait ==
    [][\A w \in QWorkers : ConsumeAfterWait(w) => qlast']_vars

\* what holds: the consume_quota succeeds when the quota that the wait
\* found is still there
C39_Undisturbed ==
    [][\A w \in QWorkers :
          (ConsumeAfterWait(w) /\ ~ResetDue
             /\ used_quota + qwait[w].admitted <= daily_limit) => qlast']_vars

\* wait_until_available has returned to a worker that made no call since,
\* and the other worker has consumed the quota it was let through for
C39_Witness ==
    \E w \in QWorkers :
        /\ qpc[w] = "idle"
        /\ qwait[w].admitted # 0
        /\ qlast
        /\ ~ResetDue
        /\ used_quota + qwait[w].admitted > daily_limit

\* the channel tasks of channel c that came to the end of
\* _process_single_channel
TasksEnded(c) == {i \in Workers : channel_inputs[i] = c /\ wpc[i] = "done_ok"}

\* every entry of the list of channel task i was counted, once
AllCounted(i) ==
    /\ is_complete(queue[i])
    /\ \A k \in DOMAIN vpc[i] : vpc[i][k] \in VideoDone
    /\ channel_progress[channel_inputs[i]].processed_videos = Len(vpc[i])

\* C40: a channel that is completed or partial has processed == total, its
\* queue is complete, and each entry of its list was counted once.
C40_AllOnce ==
    \A c \in DOMAIN channel_progress :
        channel_progress[c].status \in {"completed", "partial"} =>
            /\ channel_progress[c].processed_videos = channel_progress[c].total_videos
            /\ \A i \in TasksEnded(c) : AllCounted(i)

\* the same for the lists that name no channel twice
C40_DistinctInputs ==
    (\A i, j \in Workers : channel_inputs[i] = channel_inputs[j] => i = j) =>
        C40_AllOnce

\* a channel given twice has ended with each of its two tasks counting the
\* one video of the list
C40_Witness ==
    \E c \in DOMAIN channel_progress :
        /\ channel_progress[c].status \in {"completed", "partial"}
        /\ Cardinality(TasksEnded(c)) = 2
        /\ channel_progress[c].total_videos = 1
        /\ channel_progress[c].processed_videos = 2

====
